---- MODULE Spec2Model ----
(***************************************************************************)
(* A model of the differential-equation simulator (src/models.py): the     *)
(* forward-Euler loop of Mezclas.calcular, the stepping runner             *)
(* Modelo.simular, the statistics of Modelo.get_estadisticas, and the      *)
(* constructors, closed forms and interpretations of the four classes.     *)
(*                                                                         *)
(* Numbers.  The program computes in IEEE doubles; the model computes in   *)
(* exact fixed point.  Times and volumes are counted in ticks of           *)
(* 1/TimeScale (milli-units), solute mass in units of 1/MassScale gram     *)
(* (micrograms).  Flow rates, concentrations, the initial volume and the   *)
(* time argument of calcular are whole numbers, so that dt = t/1000 is a   *)
(* whole number of ticks; the one rounding is the floor of the outflow     *)
(* term r_out * (A / V) * dt_step.  The closed forms, where rounding and   *)
(* the range of a double decide what is returned, are computed in a small  *)
(* decimal double (see FloatUnit).                                         *)
(***************************************************************************)
EXTENDS Integers, Sequences, FiniteSets

\* ------------------------------------------------------------------ bounds
MaxV0 == 2          \* initial volumes 1..MaxV0 (litres)
MaxRate == 3        \* flow rates 0..MaxRate (litres per time unit)
MaxT == 2           \* small time arguments -1..MaxT
LargeT == 200       \* one time argument beyond the point where dt is capped
MaxTmax == 3        \* simulation horizons -2..MaxTmax
MaxDt == 2          \* simulation steps 1..MaxDt (whole time units)
MaxLen == 4         \* trajectories of 0..MaxLen samples

\* ------------------------------------------------------- program constants
StepDivisor == 1000     \* dt = min(0.1, t/1000): the 1000
DtCapInv == 10          \* dt = min(0.1, t/1000): 0.1 = 1/10

ScaleFloor == 1         \* np.maximum(np.abs(y_values[1:]), 1e-10), in units of 1e-10
RelTolInv == 100        \* rel_changes < 0.01: 0.01 = 1/100
AbsTol == 10000         \* abs_changes < 1e-6, in units of 1e-10

\* ---------------------------------------------------------- number model
TimeScale == 10 * 100           \* ticks per time unit and per litre
MassScale == 1000 * 1000        \* mass units per gram
SnapThreshold == 1              \* 1e-10 gram, rounded up to one mass unit

Min(a, b) == IF a < b THEN a ELSE b
Max(a, b) == IF a > b THEN a ELSE b
Abs(a) == IF a < 0 THEN -a ELSE a

\* floor(a * b / c) for a, b >= 0 and c > 0, without forming a * b
MulDiv(a, b, c) == a * (b \div c) + (a * (b % c)) \div c

\* The closed forms (P0 * exp(k*t) and the like) are computed in doubles, and
\* what they return depends on a double being a rounded value of a limited
\* range.  The model keeps a small double: a finite value is a whole number
\* of 1/FloatUnit, cut to three significant decimal digits once it reaches
\* SigLimit units; exp overflows to inf above the last entry of ExpWholePos
\* and underflows to 0 below the last entry of ExpWholeNeg.
FloatUnit == 10 * 100           \* units per 1.0
SigLimit == 10 * 100            \* a significand has three decimal digits
ExpScale == 100 * 100           \* resolution of exp on a fraction

\* np.exp at whole arguments: e^0 .. e^6 in units, e^-1 .. e^-8 in 1e-6
ExpWholePos == <<1000, 2718, 7389, 20086, 54598, 148413, 403429>>
ExpWholeNeg == <<367879, 135335, 49787, 18316, 6738, 2479, 912, 335>>

\* a result rounded (toward zero) to the significand of the small double
RoundSig(n) ==
    LET RECURSIVE R(_)
        R(m) == IF m < SigLimit THEN m ELSE 10 * R(m \div 10)
    IN IF n < 0 THEN -R(-n) ELSE R(n)

\* e^(f / FloatUnit) for 0 <= f < FloatUnit, in 1/ExpScale: the power series
TaylorExp(f) ==
    LET RECURSIVE S(_, _)
        S(term, i) ==
            IF term = 0 THEN 0
            ELSE term + S(MulDiv(f, term, FloatUnit * i), i + 1)
    IN S(ExpScale, 1)

\* np.exp(x) is inf: x (in units) is beyond the largest finite result
ExpOverflows(x) == x \div FloatUnit >= Len(ExpWholePos)

\* np.exp(x) in units for x in units, where it does not overflow
ExpUnits(x) ==
    LET n == x \div FloatUnit
        f == x % FloatUnit
    IN IF n < -Len(ExpWholeNeg) THEN 0
       ELSE IF n < 0
            THEN ((ExpWholeNeg[-n] \div 10) * TaylorExp(f)) \div (FloatUnit * FloatUnit)
            ELSE MulDiv(TaylorExp(f), ExpWholePos[n + 1], ExpScale)

\* ------------------------------------------------------------------ state
VARIABLES
    tank,        \* the Mezclas object: V0, C0, r_in, C_in, r_out, volumen_constante
    pc,          \* position in Mezclas.calcular: "idle", "loop", "done"
    t,           \* the argument of calcular (whole time units)
    dt,          \* ticks
    current_t,   \* ticks
    current_A,   \* mass units
    current_V,   \* ticks (millilitres)
    steps,       \* number of loop iterations that ran the body
    result,      \* the value calcular returned (mass units); 0 while it runs
    sim_pc,      \* position in Modelo.simular: "idle", "sampling", "returned"
    t_max,       \* simular's horizon (whole time units)
    sim_dt,      \* simular's step (whole time units)
    t_values,    \* simular's sample times
    y_values,    \* simular's samples, one per evaluated time
    est_pc,        \* position in Modelo.get_estadisticas: "idle", "done"
    est_t_values,  \* get_estadisticas' argument t_values
    est_y_values,  \* get_estadisticas' argument y_values
    stats,         \* the dictionary get_estadisticas returned
    modelo,      \* the CrecimientoExponencial, EnfriamientoNewton or CircuitoRL object
    raised,      \* the exception the last call raised, "" when it returned
    call,        \* the last call made on the object, with its arguments
    value,       \* what that call returned
    first_call,  \* the first calcular(t) made on the object and its value
    simulaciones,  \* SimuladorApp.simulaciones: the stored runs
    evento,        \* the last handler of the SimuladorApp that ran, and what it did
    db,            \* the tables of the expense application: categories, transactions
    peticion       \* the last request the expense application served

calcVars == <<pc, t, dt, current_t, current_A, current_V, steps, result>>
simVars == <<sim_pc, t_max, sim_dt, t_values, y_values>>
estVars == <<est_pc, est_t_values, est_y_values, stats>>
objVars == <<modelo, raised, call, value, first_call>>
guiVars == <<simulaciones, evento>>
webVars == <<db, peticion>>
vars == <<tank, calcVars, simVars, estVars, objVars, guiVars, webVars>>

\* no object, no call, no value
NoObject == <<>>
NoCall == [op |-> "none"]
NoValue == <<>>

\* no handler has run, no request was served, the tables are empty
NoEvent == [op |-> "none"]
NoRequest == [view |-> "none"]
NoRows ==
    [categories |-> {}, transactions |-> {}, next_category |-> 1, next_transaction |-> 1]

\* the two applications as they start: SimuladorApp.__init__ sets
\* self.simulaciones = []
AppsStart ==
    /\ simulaciones = <<>>
    /\ evento = NoEvent
    /\ db = NoRows
    /\ peticion = NoRequest

\* Mezclas.__init__: the object; for whole flow rates
\* abs(r_in - r_out) < 1e-10 is r_in = r_out
MezclasInit(V0, C0, r_in, C_in, r_out) ==
    [V0 |-> V0, C0 |-> C0, r_in |-> r_in, C_in |-> C_in, r_out |-> r_out,
     volumen_constante |-> (r_in = r_out)]

\* mutant of MezclasValid: a volume of 0 is accepted
MezclasValidZeroVolume(V0, C0, r_in, C_in, r_out) ==
    ~(V0 < 0) /\ ~(C0 < 0) /\ ~(r_in < 0 \/ r_out < 0) /\ ~(C_in < 0)

\* the four checks of Mezclas.__init__ pass
MezclasValid(V0, C0, r_in, C_in, r_out) ==
    ~(V0 <= 0) /\ ~(C0 < 0) /\ ~(r_in < 0 \/ r_out < 0) /\ ~(C_in < 0)

Concentrations == {0, 1}

Tanks ==
    {MezclasInit(V0, C0, r_in, C_in, r_out) :
        V0 \in 1..MaxV0, C0 \in Concentrations, r_in \in 0..MaxRate,
        C_in \in Concentrations,
        r_out \in 0..MaxRate}

\* the tanks construction accepts
TankInputs ==
    {m \in Tanks : MezclasValid(m.V0, m.C0, m.r_in, m.C_in, m.r_out)}

TimeArgs == (-1..MaxT) \cup {LargeT}

\* mutant of InitialAmount: after the first call the amount is taken as 0
InitialAmountOnce(m) == IF first_call = <<>> THEN m.C0 * m.V0 * MassScale ELSE 0

\* mutant of InitialAmount: the initial concentration, not the amount
InitialAmountPerLitre(m) == m.C0 * MassScale

\* the initial amount A0 = C0 * V0
InitialAmount(m) == m.C0 * m.V0 * MassScale

\* mutant of Branch: equal flow rates are integrated like unequal ones
BranchNoClosedForm(m, tt) ==
    IF tt <= 0 THEN "initial"
    ELSE IF m.r_in = 0 /\ m.r_out = 0 THEN "initial"
    ELSE "euler"

\* the path calcular(t) takes: the tests of lines 219, 222, 224 and 238
Branch(m, tt) ==
    IF tt <= 0 THEN "initial"
    ELSE IF m.volumen_constante
         THEN IF m.r_out = 0 THEN "initial" ELSE "closed"
         ELSE IF m.r_in = 0 /\ m.r_out = 0 THEN "initial" ELSE "euler"

\* lines 228-234: max(0.0, A_ss + (A0 - A_ss) * exp(-k * t)), k = r_out / V0
ClosedForm(m, tt) ==
    LET A_ss == (m.r_in * m.C_in * m.V0 * MassScale) \div m.r_out
        A0 == InitialAmount(m)
        k == (m.r_out * FloatUnit) \div m.V0
        e == RoundSig(ExpUnits(-(k * tt)))
        A_t == IF A0 >= A_ss
               THEN A_ss + MulDiv(e, A0 - A_ss, FloatUnit)
               ELSE A_ss - MulDiv(e, A_ss - A0, FloatUnit)
    IN Max(0, A_t)

\* mutant of StepSize: t/1000 is taken as 0
StepSizeZero(tt) == 0 * tt

\* mutant of StepSize: the step is the larger of the two
StepSizeMax(tt) == Max(TimeScale \div DtCapInv, (tt * TimeScale) \div StepDivisor)

\* dt = min(0.1, t/1000), in ticks
StepSize(tt) == Min(TimeScale \div DtCapInv, (tt * TimeScale) \div StepDivisor)

\* mutant of ClampAmount: the amount is not clamped
ClampAmountMissing(a) == a

\* mutant of ClampVolume: the volume is not clamped
ClampVolumeMissing(v) == v

\* current_A = max(0.0, current_A); current_V = max(0.0, current_V)
ClampAmount(a) == Max(0, a)
ClampVolume(v) == Max(0, v)
SnapAmount(a) == IF Abs(a) < SnapThreshold THEN 0 ELSE a

\* one run of the loop body (lines 252-268), from the locals st
EulerStep(m, tt, st) ==
    LET dt_step == Min(st.dt, tt * TimeScale - st.current_t)
        inflow == m.r_in * m.C_in * dt_step * (MassScale \div TimeScale)
        outflow == MulDiv(m.r_out * dt_step, st.current_A, st.current_V)
        A1 == IF st.current_V > 0
              THEN ClampAmount(st.current_A + (inflow - outflow))
              ELSE st.current_A
        V1 == IF st.current_V > 0
              THEN ClampVolume(st.current_V + (m.r_in - m.r_out) * dt_step)
              ELSE st.current_V
    IN [dt |-> st.dt,
        current_t |-> st.current_t + dt_step,
        current_A |-> SnapAmount(A1),
        current_V |-> V1]

Locals == [dt |-> dt, current_t |-> current_t, current_A |-> current_A,
           current_V |-> current_V]

\* calcular has returned: its locals no longer exist
DropLocals ==
    /\ dt' = 0
    /\ current_t' = 0
    /\ current_A' = 0
    /\ current_V' = 0
    /\ steps' = 0

Init ==
    /\ tank \in TankInputs
    /\ pc = "idle"
    /\ t = 0
    /\ dt = 0
    /\ current_t = 0
    /\ current_A = 0
    /\ current_V = 0
    /\ steps = 0
    /\ result = 0
    /\ sim_pc = "idle"
    /\ t_max = 0
    /\ sim_dt = 0
    /\ t_values = <<>>
    /\ y_values = <<>>
    /\ est_pc = "idle"
    /\ est_t_values = <<>>
    /\ est_y_values = <<>>
    /\ stats = <<>>
    /\ modelo = NoObject
    /\ raised = ""
    /\ call = NoCall
    /\ value = NoValue
    /\ first_call = <<>>
    /\ AppsStart

\* calcular(t) up to the loop (lines 219-245): it returns at once with the
\* initial amount or with the closed form, or it sets up the loop
CalcularEnter(tt) ==
    /\ pc = "idle"
    /\ t' = tt
    /\ IF Branch(tank, tt) # "euler"
       THEN /\ pc' = "done"
            /\ result' = IF Branch(tank, tt) = "closed"
                          THEN ClosedForm(tank, tt)
                          ELSE InitialAmount(tank)
            /\ UNCHANGED <<dt, current_t, current_A, current_V, steps>>
       ELSE /\ pc' = "loop"
            /\ steps' = 0
            /\ dt' = StepSize(tt)
            /\ current_t' = 0
            /\ current_A' = InitialAmount(tank)
            /\ current_V' = tank.V0 * TimeScale
            /\ result' = 0

\* while current_t < t: if current_V <= 0: return 0.0
LoopEmpty ==
    /\ pc = "loop"
    /\ current_t < t * TimeScale
    /\ current_V <= 0
    /\ result' = 0
    /\ pc' = "done"
    /\ UNCHANGED <<tank, t, dt, current_t, current_A, current_V, steps, simVars, estVars,
                   objVars, guiVars, webVars>>

\* one iteration of the while loop
LoopStep ==
    /\ pc = "loop"
    /\ current_t < t * TimeScale
    /\ ~(current_V <= 0)
    /\ LET st == EulerStep(tank, t, Locals)
       IN /\ current_t' = st.current_t
          /\ current_A' = st.current_A
          /\ current_V' = st.current_V
    /\ steps' = steps + 1
    /\ UNCHANGED <<tank, pc, t, dt, result, simVars, estVars, objVars, guiVars, webVars>>

\* the loop condition fails: return current_A
LoopExit ==
    /\ pc = "loop"
    /\ ~(current_t < t * TimeScale)
    /\ result' = current_A
    /\ pc' = "done"
    /\ UNCHANGED <<tank, t, dt, current_t, current_A, current_V, steps, simVars, estVars,
                   objVars, guiVars, webVars>>

\* a caller evaluates the model once: calcular(tt)
CalcularCall(tt) ==
    /\ sim_pc = "idle"
    /\ CalcularEnter(tt)
    /\ UNCHANGED <<tank, simVars, estVars, objVars, guiVars, webVars>>

\* the value is handed to that caller; the locals of the call are gone
CalcularReturn ==
    /\ sim_pc = "idle"
    /\ pc = "done"
    /\ pc' = "idle"
    /\ DropLocals
    /\ UNCHANGED <<tank, t, result, simVars, estVars, objVars, guiVars, webVars>>

Next ==
    \/ \E tt \in TimeArgs : CalcularCall(tt)
    \/ LoopEmpty
    \/ LoopStep
    \/ LoopExit
    \/ CalcularReturn

Spec == Init /\ [][Next]_vars

\* calcular runs to its end once it is called: the interpreter executes the
\* next statement of the loop, whichever it is; the calls themselves are the
\* caller's choice and are under no fairness
LiveTanks == {m \in TankInputs : m.C0 = 1 /\ m.C_in = 1}

LiveInit ==
    /\ Init
    /\ tank \in LiveTanks

SpecLive ==
    /\ LiveInit
    /\ [][Next]_vars
    /\ WF_vars(LoopEmpty)
    /\ WF_vars(LoopStep)
    /\ WF_vars(LoopExit)

\* ------------------------------------------- the loop at trace amounts
\* The amounts of Spec are counted in micrograms, ten thousand times the
\* 1e-10 g below which the loop takes an amount as 0, so that no amount there
\* lies between 0 and that threshold.  Here the same loop runs on tanks of
\* trace concentrations: C0 and C_in are counted in femtograms (1e-15 g) per
\* litre and the amounts in femtograms; C_in is a multiple of TimeScale, so
\* that the inflow of a step is a whole number of femtograms.
SnapFemto == 100000     \* abs(current_A) < 1e-10, in femtograms

TraceConcentrations == {0, 150 * TimeScale, 1000 * TimeScale}
TraceInflows == {0, 1000 * TimeScale}

TraceTanks ==
    {m \in {MezclasInit(V0, C0, r_in, C_in, r_out) :
               V0 \in 1..MaxV0, C0 \in TraceConcentrations, r_in \in 0..MaxRate,
               C_in \in TraceInflows, r_out \in 0..MaxRate} :
        ~m.volumen_constante}

\* mutant of SnapTrace: a small amount is kept
SnapTraceMissing(a) == a

\* if abs(current_A) < 1e-10: current_A = 0.0
SnapTrace(a) == IF Abs(a) < SnapFemto THEN 0 ELSE a

\* the initial amount A0 = C0 * V0, in femtograms
TraceAmount(m) == m.C0 * m.V0

\* one run of the loop body (lines 252-268) on trace amounts
TraceStep(m, tt, st) ==
    LET dt_step == Min(st.dt, tt * TimeScale - st.current_t)
        inflow == (m.r_in * m.C_in * dt_step) \div TimeScale
        outflow == MulDiv(m.r_out * dt_step, st.current_A, st.current_V)
        A1 == IF st.current_V > 0
              THEN ClampAmount(st.current_A + (inflow - outflow))
              ELSE st.current_A
        V1 == IF st.current_V > 0
              THEN ClampVolume(st.current_V + (m.r_in - m.r_out) * dt_step)
              ELSE st.current_V
    IN [dt |-> st.dt,
        current_t |-> st.current_t + dt_step,
        current_A |-> SnapTrace(A1),
        current_V |-> V1]

\* calcular(tt) up to the loop, on a tank of unequal flow rates
TraceCall(tt) ==
    /\ pc = "idle"
    /\ t' = tt
    /\ IF Branch(tank, tt) # "euler"
       THEN /\ pc' = "done"
            /\ result' = TraceAmount(tank)
            /\ UNCHANGED <<dt, current_t, current_A, current_V, steps>>
       ELSE /\ pc' = "loop"
            /\ steps' = 0
            /\ dt' = StepSize(tt)
            /\ current_t' = 0
            /\ current_A' = TraceAmount(tank)
            /\ current_V' = tank.V0 * TimeScale
            /\ result' = 0
    /\ UNCHANGED <<tank, simVars, estVars, objVars, guiVars, webVars>>

\* one iteration of the while loop
TraceLoopStep ==
    /\ pc = "loop"
    /\ current_t < t * TimeScale
    /\ ~(current_V <= 0)
    /\ LET st == TraceStep(tank, t, Locals)
       IN /\ current_t' = st.current_t
          /\ current_A' = st.current_A
          /\ current_V' = st.current_V
    /\ steps' = steps + 1
    /\ UNCHANGED <<tank, pc, t, dt, result, simVars, estVars, objVars, guiVars, webVars>>

TraceInit ==
    /\ tank \in TraceTanks
    /\ pc = "idle"
    /\ t = 0
    /\ dt = 0
    /\ current_t = 0
    /\ current_A = 0
    /\ current_V = 0
    /\ steps = 0
    /\ result = 0
    /\ sim_pc = "idle"
    /\ t_max = 0
    /\ sim_dt = 0
    /\ t_values = <<>>
    /\ y_values = <<>>
    /\ est_pc = "idle"
    /\ est_t_values = <<>>
    /\ est_y_values = <<>>
    /\ stats = <<>>
    /\ modelo = NoObject
    /\ raised = ""
    /\ call = NoCall
    /\ value = NoValue
    /\ first_call = <<>>
    /\ AppsStart

TraceNext ==
    \/ \E tt \in 0..MaxT : TraceCall(tt)
    \/ LoopEmpty
    \/ TraceLoopStep
    \/ LoopExit
    \/ CalcularReturn

SpecTrace == TraceInit /\ [][TraceNext]_vars

\* ------------------------------------------------------ Modelo.simular
\* ceil(a / b) for b > 0
CeilDiv(a, b) == -((-a) \div b)

\* len(np.arange(0, stop, step)) for step > 0
ArangeLen(stop, step) == Max(0, CeilDiv(stop, step))

\* np.arange(0, stop, step): 0, step, 2*step, ...
Arange(stop, step) == [i \in 1..ArangeLen(stop, step) |-> (i - 1) * step]

\* t_values = np.arange(0, t_max + dt, dt)
SimularStart(tm, d) ==
    /\ sim_pc = "idle"
    /\ pc = "idle"
    /\ t_max' = tm
    /\ sim_dt' = d
    /\ t_values' = Arange(tm + d, d)
    /\ y_values' = <<>>
    /\ sim_pc' = "sampling"
    /\ UNCHANGED <<tank, calcVars, estVars, objVars, guiVars, webVars>>

\* the comprehension calls self.calcular(t) for the next t of t_values
SimularCall ==
    /\ sim_pc = "sampling"
    /\ Len(y_values) < Len(t_values)
    /\ CalcularEnter(t_values[Len(y_values) + 1])
    /\ UNCHANGED <<tank, simVars, estVars, objVars, guiVars, webVars>>

\* and collects the value it returned
SimularCollect ==
    /\ sim_pc = "sampling"
    /\ pc = "done"
    /\ y_values' = Append(y_values, result)
    /\ pc' = "idle"
    /\ DropLocals
    /\ UNCHANGED <<tank, t, result, sim_pc, t_max, sim_dt, t_values, estVars,
                   objVars, guiVars, webVars>>

\* return t_values, y_values
SimularReturn ==
    /\ sim_pc = "sampling"
    /\ pc = "idle"
    /\ Len(y_values) = Len(t_values)
    /\ sim_pc' = "returned"
    /\ UNCHANGED <<tank, calcVars, t_max, sim_dt, t_values, y_values, estVars,
                   objVars, guiVars, webVars>>

\* the runner is checked on one tank per pair of flow rates
SimTanks == {m \in TankInputs : m.V0 = 1 /\ m.C0 = 1 /\ m.C_in = 0}

SimInit ==
    /\ Init
    /\ tank \in SimTanks

SimNext ==
    \/ \E tm \in -2..MaxTmax, d \in 1..MaxDt : SimularStart(tm, d)
    \/ SimularCall
    \/ LoopEmpty
    \/ LoopStep
    \/ LoopExit
    \/ SimularCollect
    \/ SimularReturn

SpecSim == SimInit /\ [][SimNext]_vars

\* ------------------------------------------- Modelo.get_estadisticas
\* Samples are doubles: a finite value is the rational num/den in units of
\* 1e-10 (so that 1e-10 and 1e-6 are whole numbers), and there are the two
\* infinities and NaN.  Sample times are whole time units.  Differences and
\* ratios of samples are kept exact; the sum and the quotient of np.mean are
\* rounded (FRound).
GCD(a, b) ==
    LET RECURSIVE G(_, _)
        G(x, y) == IF y = 0 THEN x ELSE G(y, x % y)
    IN G(Abs(a), Abs(b))

\* the finite double n/d, d > 0, in lowest terms
Rat(n, d) ==
    LET g == GCD(n, d)
    IN [k |-> "fin", num |-> n \div g, den |-> d \div g]

Fin(n) == [k |-> "fin", num |-> n, den |-> 1]
PosInf == [k |-> "inf", num |-> 1, den |-> 1]
NegInf == [k |-> "inf", num |-> -1, den |-> 1]
NaN == [k |-> "nan", num |-> 0, den |-> 1]

\* np.isfinite
IsFinite(x) == x.k = "fin"

\* np.abs
FAbs(x) == IF x.k = "nan" THEN NaN ELSE [x EXCEPT !.num = Abs(x.num)]

FNeg(x) == IF x.k = "nan" THEN NaN ELSE [x EXCEPT !.num = -x.num]

\* a + b in IEEE arithmetic
FAdd(a, b) ==
    CASE a.k = "nan" \/ b.k = "nan" -> NaN
      [] a.k = "fin" /\ b.k = "fin" -> Rat(a.num * b.den + b.num * a.den, a.den * b.den)
      [] a.k = "inf" /\ b.k = "fin" -> a
      [] a.k = "fin" /\ b.k = "inf" -> b
      [] OTHER -> IF a.num = b.num THEN a ELSE NaN

\* a - b
FSub(a, b) == FAdd(a, FNeg(b))

\* a / n for a whole n > 0
FDivInt(a, n) == IF a.k = "fin" THEN Rat(a.num, a.den * n) ELSE a

\* a / b for a >= 0 and b > 0
FDivide(a, b) ==
    CASE a.k = "nan" \/ b.k = "nan" -> NaN
      [] a.k = "fin" /\ b.k = "fin" -> Rat(a.num * b.den, a.den * b.num)
      [] a.k = "fin" /\ b.k = "inf" -> Fin(0)
      [] a.k = "inf" /\ b.k = "fin" -> a
      [] OTHER -> NaN

\* a < b: false when either is NaN
FLess(a, b) ==
    CASE a.k = "nan" \/ b.k = "nan" -> FALSE
      [] a.k = "fin" /\ b.k = "fin" -> a.num * b.den < b.num * a.den
      [] a.k = "inf" /\ b.k = "fin" -> a.num < 0
      [] a.k = "fin" /\ b.k = "inf" -> b.num > 0
      [] OTHER -> a.num < b.num

\* np.maximum and np.minimum, which hand a NaN on
FMaximum(a, b) ==
    IF a.k = "nan" \/ b.k = "nan" THEN NaN ELSE IF FLess(a, b) THEN b ELSE a
FMinimum(a, b) ==
    IF a.k = "nan" \/ b.k = "nan" THEN NaN ELSE IF FLess(b, a) THEN b ELSE a

\* The sum and the quotient of np.mean are rounded to the double: in the
\* model a double keeps six significant decimal digits (a significand below
\* Significand), so that a sum of samples can have a digit too many, as the
\* sum of three doubles can have a bit too many.
Significand == 1000000

\* n/d to the nearest whole number, a tie to the even one (n >= 0, d > 0)
RoundHalfEven(n, d) ==
    LET q == n \div d
        r == n % d
    IN IF 2 * r > d \/ (2 * r = d /\ q % 2 = 1) THEN q + 1 ELSE q

\* mutant of FRound: the exact value is kept
FRoundExact(x) == x

\* the double nearest to the rational x
FRound(x) ==
    IF x.k # "fin" \/ x.num = 0 THEN x
    ELSE LET a == Abs(x.num)
             sgn == IF x.num < 0 THEN -1 ELSE 1
             whole == a \div x.den
             tens == {1, 10, 100, 1000, 10000, 100000, 1000000}
         IN IF whole >= Significand
            THEN LET u == CHOOSE p \in tens :
                              /\ whole \div p < Significand
                              /\ (whole \div p) * 10 >= Significand
                 IN Rat(sgn * RoundHalfEven(a, x.den * u) * u, 1)
            ELSE LET f == CHOOSE p \in tens :
                              /\ (a * p) \div x.den < Significand
                              /\ (a * p * 10) \div x.den >= Significand
                 IN Rat(sgn * RoundHalfEven(a * f, x.den), f)

\* the sum of np.mean: the samples are added in order, each sum rounded
RECURSIVE FSum(_)
FSum(s) ==
    IF s = <<>> THEN Fin(0)
    ELSE FRound(FAdd(FSum(SubSeq(s, 1, Len(s) - 1)), s[Len(s)]))

\* mutant of FMean: the sum is not divided
FMeanSum(s) == IF s = <<>> THEN NaN ELSE FSum(s)

\* np.mean: NaN for an empty array
FMean(s) == IF s = <<>> THEN NaN ELSE FRound(FDivInt(FSum(s), Len(s)))

\* mutant of FMax: the first sample
FMaxFirst(s) == s[1]

RECURSIVE FMax(_)
FMax(s) == IF Len(s) = 1 THEN s[1] ELSE FMaximum(Head(s), FMax(Tail(s)))

RECURSIVE FMin(_)
FMin(s) == IF Len(s) = 1 THEN s[1] ELSE FMinimum(Head(s), FMin(Tail(s)))

\* np.diff of doubles and of sample times
Diff(y) == [i \in 1..Len(y) - 1 |-> FSub(y[i + 1], y[i])]
DiffT(tv) == [i \in 1..Len(tv) - 1 |-> tv[i + 1] - tv[i]]

\* the elements of s at the indices where keep holds, in order
RECURSIVE Masked(_, _)
Masked(s, keep) ==
    IF s = <<>> THEN <<>>
    ELSE IF Head(keep) THEN <<Head(s)>> \o Masked(Tail(s), Tail(keep))
         ELSE Masked(Tail(s), Tail(keep))

\* lines 50-57: the average rate of change, 0.0 when it is not computed
TasaCambio(tv, y) ==
    IF Len(y) > 1 /\ Len(tv) > 1
    THEN LET delta_y == Diff(y)
             delta_t == DiffT(tv)
             valid_dt == [i \in 1..Len(delta_t) |-> delta_t[i] > 0]
             valid_y == Masked(delta_y, valid_dt)
             valid_t == Masked(delta_t, valid_dt)
             rates == [i \in 1..Len(valid_y) |-> FDivInt(valid_y[i], valid_t[i])]
         IN IF \E i \in 1..Len(valid_dt) : valid_dt[i]
            THEN FMean(Masked(rates, [i \in 1..Len(rates) |-> IsFinite(rates[i])]))
            ELSE Fin(0)
    ELSE Fin(0)

\* mutant of IsSteady: the small absolute change does not count
IsSteadyRelativeOnly(y) ==
    LET abs_changes == [i \in 1..Len(y) - 1 |-> FAbs(Diff(y)[i])]
        scale == [i \in 1..Len(y) - 1 |-> FMaximum(FAbs(y[i + 1]), Fin(ScaleFloor))]
        rel_changes == [i \in 1..Len(y) - 1 |->
                           IF FLess(Fin(0), scale[i])
                           THEN FDivide(abs_changes[i], scale[i])
                           ELSE Fin(0)]
    IN [i \in 1..Len(y) - 1 |-> FLess(rel_changes[i], Rat(1, RelTolInv))]

\* lines 62-67: is_steady, one flag per consecutive pair of samples
IsSteady(y) ==
    LET abs_changes == [i \in 1..Len(y) - 1 |-> FAbs(Diff(y)[i])]
        scale == [i \in 1..Len(y) - 1 |-> FMaximum(FAbs(y[i + 1]), Fin(ScaleFloor))]
        rel_changes == [i \in 1..Len(y) - 1 |->
                           IF FLess(Fin(0), scale[i])
                           THEN FDivide(abs_changes[i], scale[i])
                           ELSE Fin(0)]
    IN [i \in 1..Len(y) - 1 |->
           \/ FLess(rel_changes[i], Rat(1, RelTolInv))
           \/ FLess(abs_changes[i], Fin(AbsTol))]

\* np.where(is_steady)[0]: the 0-based indices of the steady pairs
SteadyPoints(y) == {i - 1 : i \in {j \in 1..Len(y) - 1 : IsSteady(y)[j]}}

SetMin(S) == CHOOSE x \in S : \A z \in S : x <= z

\* mutant of FirstSteady: the index of the pair, not of its later sample
FirstSteadyNoShift(y) == SetMin(SteadyPoints(y))

\* first_steady = steady_points[0] + 1, a 0-based index into t_values
FirstSteady(y) == SetMin(SteadyPoints(y)) + 1

\* mutant of DefaultTiempo: the first sample time
DefaultTiempoFirst(tv) == IF Len(tv) > 0 THEN tv[1] ELSE 0

\* t_values[-1] if len(t_values) > 0 else 0.0
DefaultTiempo(tv) == IF Len(tv) > 0 THEN tv[Len(tv)] ELSE 0

\* mutant of TiempoEquilibrio: the time of the earlier sample of the pair
TiempoEquilibrioEarlier(tv, y) ==
    IF Len(y) > 2 /\ SteadyPoints(y) # {} /\ FirstSteady(y) < Len(tv)
    THEN tv[FirstSteady(y)]
    ELSE DefaultTiempo(tv)

\* lines 46 and 60-75: the equilibrium time
TiempoEquilibrio(tv, y) ==
    IF Len(y) > 2 /\ SteadyPoints(y) # {} /\ FirstSteady(y) < Len(tv)
    THEN tv[FirstSteady(y) + 1]
    ELSE DefaultTiempo(tv)

\* the dictionary get_estadisticas returns; the empty dictionary has no key
NoStats == <<>>

get_estadisticas(tv, y) ==
    IF Len(y) = 0 \/ Len(tv) = 0
    THEN NoStats
    ELSE [promedio |-> FMean(y),
          maximo |-> FMax(y),
          minimo |-> FMin(y),
          tasa_cambio |-> TasaCambio(tv, y),
          tiempo_equilibrio |-> TiempoEquilibrio(tv, y)]

\* get_estadisticas(t_values, y_values) is called and returns
GetEstadisticas ==
    /\ est_pc = "idle"
    /\ stats' = get_estadisticas(est_t_values, est_y_values)
    /\ est_pc' = "done"
    /\ UNCHANGED <<tank, calcVars, simVars, est_t_values, est_y_values, objVars, guiVars, webVars>>

\* the trajectories the statistics are checked on: as many samples as times,
\* or one of the two sequences empty
SampleValues == {0, 5000, 333335, 1000000, 1010100, -1000000}
SampleInputs == {Fin(v) : v \in SampleValues} \cup {PosInf}
TimeGaps == {0, 1, 2}

\* sample times from 0 on, each gap taken from TimeGaps
RECURSIVE TimesFrom(_, _)
TimesFrom(gaps, i) ==
    IF i = 0 THEN <<>>
    ELSE IF i = 1 THEN <<0>>
    ELSE LET p == TimesFrom(gaps, i - 1)
         IN Append(p, p[i - 1] + gaps[i - 1])

StatsInit ==
    /\ tank = MezclasInit(1, 0, 0, 0, 0)
    /\ pc = "idle"
    /\ t = 0
    /\ dt = 0
    /\ current_t = 0
    /\ current_A = 0
    /\ current_V = 0
    /\ steps = 0
    /\ result = 0
    /\ sim_pc = "idle"
    /\ t_max = 0
    /\ sim_dt = 0
    /\ t_values = <<>>
    /\ y_values = <<>>
    /\ est_pc = "idle"
    /\ stats = NoStats
    /\ modelo = NoObject
    /\ raised = ""
    /\ call = NoCall
    /\ value = NoValue
    /\ first_call = <<>>
    /\ AppsStart
    /\ \E n \in 0..MaxLen :
          \/ /\ \E g \in [1..Max(0, n - 1) -> TimeGaps] : est_t_values = TimesFrom(g, n)
             /\ est_y_values \in [1..n -> SampleInputs]
          \/ /\ est_t_values = <<>>
             /\ est_y_values \in [1..n -> SampleInputs]
          \/ /\ \E g \in [1..Max(0, n - 1) -> TimeGaps] : est_t_values = TimesFrom(g, n)
             /\ est_y_values = <<>>

StatsNext == GetEstadisticas

SpecStats == StatsInit /\ [][StatsNext]_vars

\* ------------------------------------------- doubles of the closed forms
\* A value of a closed form is a record like a sample of the statistics,
\* with den = 1 and num counted in 1/FloatUnit.
Sign(n) == IF n < 0 THEN -1 ELSE IF n > 0 THEN 1 ELSE 0

\* the largest finite small double
MaxFloat == (SigLimit - 1) * FloatUnit

\* the double of the exact result n: rounded, infinite beyond the range
Fl(n) ==
    LET r == RoundSig(n)
    IN IF r > MaxFloat THEN PosInf ELSE IF r < -MaxFloat THEN NegInf ELSE Fin(r)

\* a + b, a - b, a * b and a / b in doubles
RAdd(a, b) == IF a.k = "fin" /\ b.k = "fin" THEN Fl(a.num + b.num) ELSE FAdd(a, b)
RSub(a, b) == RAdd(a, FNeg(b))
RMul(a, b) ==
    CASE a.k = "nan" \/ b.k = "nan" -> NaN
      [] a.k = "fin" /\ b.k = "fin" ->
            Fl(Sign(a.num) * Sign(b.num) * MulDiv(Abs(a.num), Abs(b.num), FloatUnit))
      [] OTHER -> IF a.num = 0 \/ b.num = 0 THEN NaN
                  ELSE IF (a.num > 0) = (b.num > 0) THEN PosInf ELSE NegInf
RDiv(a, b) ==
    CASE a.k = "nan" \/ b.k = "nan" -> NaN
      [] a.k = "fin" /\ b.k = "fin" ->
            IF b.num = 0
            THEN IF a.num = 0 THEN NaN ELSE IF a.num > 0 THEN PosInf ELSE NegInf
            ELSE Fl(Sign(a.num) * Sign(b.num) * ((Abs(a.num) * FloatUnit) \div Abs(b.num)))
      [] a.k = "inf" /\ b.k = "fin" ->
            IF (a.num > 0) = (b.num >= 0) THEN PosInf ELSE NegInf
      [] a.k = "fin" /\ b.k = "inf" -> Fin(0)
      [] OTHER -> NaN

\* np.exp: inf on overflow (a warning, no exception), 0 on underflow
FExp(a) ==
    CASE a.k = "nan" -> NaN
      [] a.k = "inf" -> IF a.num > 0 THEN PosInf ELSE Fin(0)
      [] OTHER -> IF ExpOverflows(a.num) THEN PosInf ELSE Fl(ExpUnits(a.num))

\* the time argument tt (whole time units) as a double
Time(tt) == Fin(tt * FloatUnit)

\* ------------------------------------------------ the four model classes
\* Parameters of the three closed-form classes are doubles, kept as their
\* whole number of 1/FloatUnit.
Exists(obj) == DOMAIN obj # {}

\* CrecimientoExponencial.__init__: no check
CrecimientoInit(P0, k) == [clase |-> "CrecimientoExponencial", P0 |-> P0, k |-> k]

\* mutant of EnfriamientoValid: only k is checked
EnfriamientoValidOnlyK(T0, Ta, k) == ~(k <= 0)

\* the two checks of EnfriamientoNewton.__init__ pass
EnfriamientoValid(T0, Ta, k) == ~(k <= 0) /\ ~(T0 = Ta)

EnfriamientoInit(T0, Ta, k) ==
    [clase |-> "EnfriamientoNewton", T0 |-> T0, Ta |-> Ta, k |-> k]

\* CircuitoRL.__init__: no check
CircuitoInit(E, R, L) == [clase |-> "CircuitoRL", E |-> E, R |-> R, L |-> L]

\* mutant of CrecimientoCalcular: the exponent has the other sign
CrecimientoCalcularDecay(m, tt) ==
    RMul(Fin(m.P0), FExp(RMul(Fin(-m.k), Time(tt))))

\* self.P0 * np.exp(self.k * t)
CrecimientoCalcular(m, tt) ==
    RMul(Fin(m.P0), FExp(RMul(Fin(m.k), Time(tt))))

\* mutant of EnfriamientoCalcular: no test of t < 0
EnfriamientoCalcularNoGuard(m, tt) ==
    RAdd(Fin(m.Ta),
         RMul(RSub(Fin(m.T0), Fin(m.Ta)), FExp(RMul(Fin(-m.k), Time(tt)))))

\* if t < 0: return self.T0
\* return self.Ta + (self.T0 - self.Ta) * np.exp(-self.k * t)
EnfriamientoCalcular(m, tt) ==
    IF tt < 0 THEN Fin(m.T0)
    ELSE RAdd(Fin(m.Ta),
              RMul(RSub(Fin(m.T0), Fin(m.Ta)), FExp(RMul(Fin(-m.k), Time(tt)))))

\* mutant of CircuitoCalcular: no test of R == 0 or L == 0
CircuitoCalcularNoGuard(m, tt) ==
    RMul(RDiv(Fin(m.E), Fin(m.R)),
         RSub(Fin(FloatUnit),
              FExp(RDiv(RMul(Fin(-m.R), Time(tt)), Fin(m.L)))))

\* if self.R == 0 or self.L == 0: return 0
\* return (self.E / self.R) * (1 - np.exp(-self.R * t / self.L))
CircuitoCalcular(m, tt) ==
    IF m.R = 0 \/ m.L = 0 THEN Fin(0)
    ELSE RMul(RDiv(Fin(m.E), Fin(m.R)),
              RSub(Fin(FloatUnit),
                   FExp(RDiv(RMul(Fin(-m.R), Time(tt)), Fin(m.L)))))

\* calcular of the class of m
Calcular(m, tt) ==
    CASE m.clase = "CrecimientoExponencial" -> CrecimientoCalcular(m, tt)
      [] m.clase = "EnfriamientoNewton" -> EnfriamientoCalcular(m, tt)
      [] m.clase = "CircuitoRL" -> CircuitoCalcular(m, tt)

\* get_estadisticas raises IndexError: with two or more of each and unequal
\* lengths, delta_y[valid_dt] indexes with a mask of another length (line 56)
EstadisticasRaises(tv, y) ==
    /\ Len(y) > 1 /\ Len(tv) > 1
    /\ Len(y) # Len(tv)
    /\ \E i \in 1..Len(tv) - 1 : tv[i + 1] - tv[i] > 0

\* what get_interpretacion does: it returns a text or raises
Text(s) == [raised |-> "", texto |-> s]
Raise(x) == [raised |-> x, texto |-> ""]

CrecimientoInterpretacion(m) ==
    Text(IF m.k > 0 THEN "crecimiento exponencial"
         ELSE IF m.k < 0 THEN "decaimiento exponencial"
         ELSE "permanece constante")

\* stats = self.get_estadisticas(t_values, y_values), then the text with
\* stats.get('tiempo_equilibrio', 0)
EnfriamientoInterpretacion(m, tv, y) ==
    IF EstadisticasRaises(tv, y) THEN Raise("IndexError")
    ELSE LET st == get_estadisticas(tv, y)
         IN [raised |-> "",
             texto |-> "se estabiliza",
             tiempo |-> IF "tiempo_equilibrio" \in DOMAIN st
                        THEN st.tiempo_equilibrio ELSE 0]

CircuitoInterpretacion(m) ==
    Text(IF m.L > 0 THEN "constante de tiempo" ELSE "")

\* Mezclas.get_interpretacion: the texts of lines 290-305 and 310-323 format
\* t_values[-1], which raises IndexError for an empty t_values
MezclasInterpretacion(m, tv, y) ==
    IF Len(y) = 0 THEN Text("No hay datos")
    ELSE IF m.volumen_constante /\ ~(m.r_out > 0) THEN Text("sin flujo de salida")
    ELSE IF Len(tv) = 0 THEN Raise("IndexError")
    ELSE Text(IF m.volumen_constante THEN "VOLUMEN CONSTANTE" ELSE "VOLUMEN VARIABLE")

\* get_interpretacion of the object that exists
Interpretacion(tv, y) ==
    IF Exists(tank) THEN MezclasInterpretacion(tank, tv, y)
    ELSE CASE modelo.clase = "CrecimientoExponencial" -> CrecimientoInterpretacion(modelo)
           [] modelo.clase = "EnfriamientoNewton" -> EnfriamientoInterpretacion(modelo, tv, y)
           [] modelo.clase = "CircuitoRL" -> CircuitoInterpretacion(modelo)

\* ------------------------------------------------- inputs of the classes
MaxArgLen == 3      \* t_values and y_values of 0..MaxArgLen elements

Populations == {-1000, 0, 1, 1000, 2000}        \* P0: -1, 0, 0.001, 1, 2
GrowthRates == {-4000, -1000, 0, 1, 1000, 4000} \* k: -4 .. 4, and 0.001
Temperatures == {10, 25000, 90000}              \* T0, Ta: 0.01, 25, 90
CoolingRates == {-1000, 0, 100, 1000}           \* k: -1, 0, 0.1, 1
Voltages == {0, 12000}                          \* E: 0, 12
Resistances == {-1000, 0, 100000}               \* R: -1, 0, 100
Inductances == {-1000, 0, 1000}                 \* L: -1, 0, 1
VolumeInputs == {0, 1}                          \* V0
ConcentrationInputs == {-1, 0, 1}               \* C0, C_in
RateInputs == {-1, 0, 1, 2}                     \* r_in, r_out
ShortTimes == {-1, 0, 1}                        \* t of calcular on a tank
ShortHorizons == {0, 1}                         \* t_max of simular, dt = 1

\* the sequences handed to get_interpretacion and get_estadisticas: times
\* 0, g, 2g, ... and values alternating between 0 and v
ArgTimes == {[i \in 1..n |-> (i - 1) * g] : n \in 0..MaxArgLen, g \in {0, 1}}
ArgValues ==
    {[i \in 1..n |-> Fin(((i - 1) % 2) * v)] : n \in 0..MaxArgLen, v \in {0, 1000000}}

\* ------------------------------------------------ calls on one object
\* no call is under way and the caller holds no result
Free == pc = "idle" /\ sim_pc = "idle" /\ est_pc = "idle" /\ call = NoCall

Unbuilt == ~Exists(modelo) /\ ~Exists(tank)

\* the first calcular(t) and its value are remembered; between records that
\* another call was made after it
Remember(tt, v) ==
    IF first_call = <<>> THEN <<[t |-> tt, value |-> v, between |-> FALSE]>>
    ELSE IF first_call[1].t = tt THEN first_call
    ELSE <<[first_call[1] EXCEPT !.between = TRUE]>>

Between ==
    IF first_call = <<>> THEN <<>>
    ELSE <<[first_call[1] EXCEPT !.between = TRUE]>>

NewCrecimiento(P0, k) ==
    /\ Free /\ Unbuilt
    /\ call' = [op |-> "__init__", clase |-> "CrecimientoExponencial", args |-> <<P0, k>>]
    /\ modelo' = CrecimientoInit(P0, k)
    /\ raised' = ""
    /\ UNCHANGED <<tank, calcVars, simVars, estVars, value, first_call, guiVars, webVars>>

NewEnfriamiento(T0, Ta, k) ==
    /\ Free /\ Unbuilt
    /\ call' = [op |-> "__init__", clase |-> "EnfriamientoNewton", args |-> <<T0, Ta, k>>]
    /\ IF EnfriamientoValid(T0, Ta, k)
       THEN modelo' = EnfriamientoInit(T0, Ta, k) /\ raised' = ""
       ELSE modelo' = modelo /\ raised' = "ValueError"
    /\ UNCHANGED <<tank, calcVars, simVars, estVars, value, first_call, guiVars, webVars>>

NewCircuito(E, R, L) ==
    /\ Free /\ Unbuilt
    /\ call' = [op |-> "__init__", clase |-> "CircuitoRL", args |-> <<E, R, L>>]
    /\ modelo' = CircuitoInit(E, R, L)
    /\ raised' = ""
    /\ UNCHANGED <<tank, calcVars, simVars, estVars, value, first_call, guiVars, webVars>>

NewMezclas(V0, C0, r_in, C_in, r_out) ==
    /\ Free /\ Unbuilt
    /\ call' = [op |-> "__init__", clase |-> "Mezclas",
                args |-> <<V0, C0, r_in, C_in, r_out>>]
    /\ IF MezclasValid(V0, C0, r_in, C_in, r_out)
       THEN tank' = MezclasInit(V0, C0, r_in, C_in, r_out) /\ raised' = ""
       ELSE tank' = tank /\ raised' = "ValueError"
    /\ UNCHANGED <<modelo, calcVars, simVars, estVars, value, first_call, guiVars, webVars>>

\* calcular(tt) on an object of a closed-form class
CalcularModelo(tt) ==
    /\ Free /\ Exists(modelo)
    /\ call' = [op |-> "calcular", t |-> tt]
    /\ value' = Calcular(modelo, tt)
    /\ raised' = ""
    /\ first_call' = Remember(tt, Calcular(modelo, tt))
    /\ UNCHANGED <<tank, modelo, calcVars, simVars, estVars, guiVars, webVars>>

\* calcular(tt) on the tank: CalcularEnter and then the loop
MezclasCalcular(tt) ==
    /\ Free /\ Exists(tank)
    /\ CalcularEnter(tt)
    /\ call' = [op |-> "calcular", t |-> tt]
    /\ UNCHANGED <<tank, modelo, raised, value, first_call, simVars, estVars, guiVars, webVars>>

\* and its return to the caller
MezclasReturn ==
    /\ call.op = "calcular" /\ Exists(tank)
    /\ pc = "done"
    /\ pc' = "idle"
    /\ DropLocals
    /\ value' = result
    /\ first_call' = Remember(t, result)
    /\ UNCHANGED <<tank, modelo, t, result, raised, call, simVars, estVars, guiVars, webVars>>

\* get_interpretacion(tv, y)
Interpretar(tv, y) ==
    /\ Free /\ ~Unbuilt
    /\ call' = [op |-> "get_interpretacion", t_values |-> tv, y_values |-> y]
    /\ raised' = Interpretacion(tv, y).raised
    /\ value' = Interpretacion(tv, y).texto
    /\ first_call' = Between
    /\ UNCHANGED <<tank, modelo, calcVars, simVars, estVars, guiVars, webVars>>

\* get_estadisticas(tv, y)
Estadisticas(tv, y) ==
    /\ Free /\ ~Unbuilt
    /\ call' = [op |-> "get_estadisticas"]
    /\ est_t_values' = tv
    /\ est_y_values' = y
    /\ est_pc' = "done"
    /\ IF EstadisticasRaises(tv, y)
       THEN raised' = "IndexError" /\ stats' = NoStats
       ELSE raised' = "" /\ stats' = get_estadisticas(tv, y)
    /\ first_call' = Between
    /\ UNCHANGED <<tank, modelo, calcVars, simVars, value, guiVars, webVars>>

\* simular(tm, d) on an object of a closed-form class: calcular at every
\* sample time
SimularModelo(tm, d) ==
    /\ Free /\ Exists(modelo)
    /\ call' = [op |-> "simular"]
    /\ t_max' = tm
    /\ sim_dt' = d
    /\ t_values' = Arange(tm + d, d)
    /\ y_values' = [i \in 1..ArangeLen(tm + d, d) |-> Calcular(modelo, Arange(tm + d, d)[i])]
    /\ sim_pc' = "returned"
    /\ raised' = ""
    /\ first_call' = Between
    /\ UNCHANGED <<tank, modelo, calcVars, estVars, value, guiVars, webVars>>

\* simular(tm, d) on the tank: SimularStart and then the calls of calcular
SimularMezclas(tm, d) ==
    /\ Free /\ Exists(tank)
    /\ SimularStart(tm, d)

\* the caller is done with what the last call returned or raised
Release ==
    /\ ~Free
    /\ pc = "idle"
    /\ sim_pc \in {"idle", "returned"}
    /\ call' = NoCall
    /\ value' = NoValue
    /\ raised' = ""
    /\ t' = 0
    /\ result' = 0
    /\ sim_pc' = "idle"
    /\ t_max' = 0
    /\ sim_dt' = 0
    /\ t_values' = <<>>
    /\ y_values' = <<>>
    /\ est_pc' = "idle"
    /\ est_t_values' = <<>>
    /\ est_y_values' = <<>>
    /\ stats' = NoStats
    /\ UNCHANGED <<tank, modelo, first_call, pc, dt, current_t, current_A, current_V,
                   steps, guiVars, webVars>>

ModelsInit ==
    /\ tank = NoObject
    /\ pc = "idle"
    /\ t = 0
    /\ dt = 0
    /\ current_t = 0
    /\ current_A = 0
    /\ current_V = 0
    /\ steps = 0
    /\ result = 0
    /\ sim_pc = "idle"
    /\ t_max = 0
    /\ sim_dt = 0
    /\ t_values = <<>>
    /\ y_values = <<>>
    /\ est_pc = "idle"
    /\ est_t_values = <<>>
    /\ est_y_values = <<>>
    /\ stats = NoStats
    /\ modelo = NoObject
    /\ raised = ""
    /\ call = NoCall
    /\ value = NoValue
    /\ first_call = <<>>
    /\ AppsStart

ModelsNext ==
    \/ \E P0 \in Populations, k \in GrowthRates : NewCrecimiento(P0, k)
    \/ \E T0 \in Temperatures, Ta \in Temperatures, k \in CoolingRates :
          NewEnfriamiento(T0, Ta, k)
    \/ \E E \in Voltages, R \in Resistances, L \in Inductances : NewCircuito(E, R, L)
    \/ \E V0 \in VolumeInputs, C0 \in ConcentrationInputs, r_in \in RateInputs,
          C_in \in ConcentrationInputs, r_out \in RateInputs :
          NewMezclas(V0, C0, r_in, C_in, r_out)
    \/ \E tt \in TimeArgs : CalcularModelo(tt)
    \/ \E tt \in ShortTimes : MezclasCalcular(tt)
    \/ LoopEmpty
    \/ LoopStep
    \/ LoopExit
    \/ MezclasReturn
    \/ \E tv \in ArgTimes, y \in ArgValues : Interpretar(tv, y)
    \/ \E tv \in ArgTimes, y \in ArgValues : Estadisticas(tv, y)
    \/ \E tm \in ShortHorizons : SimularModelo(tm, 1)
    \/ \E tm \in ShortHorizons : SimularMezclas(tm, 1)
    \/ SimularCall
    \/ SimularCollect
    \/ SimularReturn
    \/ Release

SpecModels == ModelsInit /\ [][ModelsNext]_vars

\* -------------------------------------------------------- SimuladorApp
\* The handlers of the buttons of the desktop application (src/utils.py).
\* params is what obtener_parametros returns: the selected model, its
\* parameters (doubles, counted like the parameters of the classes) and
\* t_max (whole time units).  The horizons are multiples of GridPoints - 1,
\* so that the sample times of np.linspace are whole time units.  The tank
\* of the form has equal flow rates: its samples are closed forms.
GridPoints == 1000      \* np.linspace(0, params['t_max'], 1000)
MaxSims == 2            \* comparar is followed while fewer runs are stored

GridHorizons == {-(GridPoints - 1), 0, GridPoints - 1}

Parametros ==
    UNION {{[modelo |-> "crecimiento", P0 |-> 1000, k |-> 1, t_max |-> tm],
            [modelo |-> "enfriamiento", T0 |-> 90000, Ta |-> 25000, k |-> 100, t_max |-> tm],
            [modelo |-> "enfriamiento", T0 |-> 25000, Ta |-> 25000, k |-> 100, t_max |-> tm],
            [modelo |-> "circuito_rl", E |-> 12000, R |-> 100000, L |-> 1000, t_max |-> tm],
            [modelo |-> "mezclas", V0 |-> 1, C0 |-> 1, r_in |-> 1, C_in |-> 0, r_out |-> 1,
             t_max |-> tm],
            [modelo |-> "mezclas", V0 |-> 0, C0 |-> 1, r_in |-> 1, C_in |-> 0, r_out |-> 1,
             t_max |-> tm]} : tm \in GridHorizons}

\* mutant of Linspace: the end point is left out
LinspaceSinFinal(stop, num) == [i \in 1..num |-> ((i - 1) * stop) \div num]

\* np.linspace(0, stop, num): num points from 0 to stop, the last one stop
Linspace(stop, num) ==
    [i \in 1..num |-> IF i = num THEN stop ELSE ((i - 1) * stop) \div (num - 1)]

\* mutant of crear_modelo: the temperatures and the constant are not checked
crear_modelo_sin_validar(params) ==
    CASE params.modelo = "crecimiento" ->
            [raised |-> "", obj |-> CrecimientoInit(params.P0, params.k)]
      [] params.modelo = "enfriamiento" ->
            [raised |-> "", obj |-> EnfriamientoInit(params.T0, params.Ta, params.k)]
      [] params.modelo = "circuito_rl" ->
            [raised |-> "", obj |-> CircuitoInit(params.E, params.R, params.L)]
      [] params.modelo = "mezclas" ->
            IF MezclasValid(params.V0, params.C0, params.r_in, params.C_in, params.r_out)
            THEN [raised |-> "",
                  obj |-> MezclasInit(params.V0, params.C0, params.r_in, params.C_in,
                                      params.r_out)]
            ELSE [raised |-> "ValueError", obj |-> NoObject]

\* crear_modelo(params): the object, or the exception of its constructor
crear_modelo(params) ==
    CASE params.modelo = "crecimiento" ->
            [raised |-> "", obj |-> CrecimientoInit(params.P0, params.k)]
      [] params.modelo = "enfriamiento" ->
            IF EnfriamientoValid(params.T0, params.Ta, params.k)
            THEN [raised |-> "", obj |-> EnfriamientoInit(params.T0, params.Ta, params.k)]
            ELSE [raised |-> "ValueError", obj |-> NoObject]
      [] params.modelo = "circuito_rl" ->
            [raised |-> "", obj |-> CircuitoInit(params.E, params.R, params.L)]
      [] params.modelo = "mezclas" ->
            IF MezclasValid(params.V0, params.C0, params.r_in, params.C_in, params.r_out)
            THEN [raised |-> "",
                  obj |-> MezclasInit(params.V0, params.C0, params.r_in, params.C_in,
                                      params.r_out)]
            ELSE [raised |-> "ValueError", obj |-> NoObject]

\* modelo.name
Nombre(obj) ==
    IF "volumen_constante" \in DOMAIN obj THEN "Modelo de Mezclas"
    ELSE CASE obj.clase = "CrecimientoExponencial" -> "Crecimiento Exponencial"
           [] obj.clase = "EnfriamientoNewton" -> "Ley de Enfriamiento"
           [] obj.clase = "CircuitoRL" -> "Circuito RL"

\* modelo.calcular(t); on the tank, the amount in mass units
Evaluar(obj, tt) ==
    IF "volumen_constante" \in DOMAIN obj
    THEN Fin(IF Branch(obj, tt) = "closed" THEN ClosedForm(obj, tt) ELSE InitialAmount(obj))
    ELSE Calcular(obj, tt)

\* modelo.get_interpretacion raises: see EnfriamientoInterpretacion and
\* MezclasInterpretacion
InterpretacionRaises(obj, tv, y) ==
    IF "volumen_constante" \in DOMAIN obj
    THEN MezclasInterpretacion(obj, tv, y).raised # ""
    ELSE obj.clase = "EnfriamientoNewton" /\ EstadisticasRaises(tv, y)

\* the try block of simular up to the list (lines 529-536): the run, or the
\* exception caught at line 552.  stats and interpretacion are determined
\* by the object and the samples (get_estadisticas, get_interpretacion); the
\* run keeps, in their place, the parameters they were computed from.
Corrida(params) ==
    LET c == crear_modelo(params)
        tv == Linspace(params.t_max, GridPoints)
        yv == [i \in 1..GridPoints |-> Evaluar(c.obj, tv[i])]
    IN IF c.raised # "" THEN [raised |-> c.raised, entrada |-> <<>>]
       ELSE IF EstadisticasRaises(tv, yv) \/ InterpretacionRaises(c.obj, tv, yv)
            THEN [raised |-> "IndexError", entrada |-> <<>>]
            ELSE [raised |-> "",
                  entrada |-> [t_values |-> tv, y_values |-> yv, name |-> Nombre(c.obj),
                               de |-> params]]

\* the runs of the forms, computed once
Corridas == [params \in Parametros |-> Corrida(params)]

\* mutant of Guardar: the run is always appended
GuardarSiempre(lista, comparar, entrada) == Append(lista, entrada)

\* lines 539-544: the list after the run
Guardar(lista, comparar, entrada) ==
    IF comparar THEN Append(lista, entrada) ELSE <<entrada>>

\* lines 541-550: the display is updated, unless a comparison still waits
\* for a second run
Refresca(lista, comparar) == ~(comparar /\ Len(lista) < 2)

\* simular(comparar) once obtener_parametros has returned params
Handler(op, comparar, params) ==
    LET c == Corridas[params]
        lista == Guardar(simulaciones, comparar, c.entrada)
    IN IF c.raised # ""
       THEN /\ simulaciones' = simulaciones
            /\ evento' = [op |-> op, params |-> params, error |-> "Error en la simulación",
                           produced |-> <<>>, refreshed |-> FALSE]
       ELSE /\ simulaciones' = lista
            /\ evento' = [op |-> op, params |-> params, error |-> "",
                           produced |-> c.entrada, refreshed |-> Refresca(lista, comparar)]

\* the button "Simular": self.simular()
Simular(params) ==
    /\ Handler("simular", FALSE, params)
    /\ UNCHANGED <<tank, calcVars, simVars, estVars, objVars, webVars>>

\* the button "Comparar": self.comparar(), which is self.simular(comparar=True)
Comparar(params) ==
    /\ Len(simulaciones) < MaxSims
    /\ Handler("comparar", TRUE, params)
    /\ UNCHANGED <<tank, calcVars, simVars, estVars, objVars, webVars>>

\* either button when a field is not a number: obtener_parametros shows the
\* error and returns None, and simular returns
SinParametros(op) ==
    /\ simulaciones' = simulaciones
    /\ evento' = [op |-> op, params |-> <<>>, error |-> "Error en los parámetros",
                   produced |-> <<>>, refreshed |-> FALSE]
    /\ UNCHANGED <<tank, calcVars, simVars, estVars, objVars, webVars>>

\* the button "Limpiar": the list is emptied and the display cleared
Limpiar ==
    /\ simulaciones' = <<>>
    /\ evento' = [op |-> "limpiar", params |-> <<>>, error |-> "",
                   produced |-> <<>>, refreshed |-> TRUE]
    /\ UNCHANGED <<tank, calcVars, simVars, estVars, objVars, webVars>>

AppNext ==
    \/ \E params \in Parametros : Simular(params)
    \/ \E params \in Parametros : Comparar(params)
    \/ \E op \in {"simular", "comparar"} : SinParametros(op)
    \/ Limpiar

SpecApp == ModelsInit /\ [][AppNext]_vars

\* ------------------------------------------------------------- finnotes
\* The views of the expense application that write categories and
\* transactions (finances/views.py), one action per view and request.  db
\* holds the rows of the two tables and the next primary key of each
\* (AutoField); a row keeps its key, its owner and the fields a form sets.
\* The user of a request is the session's user, Anonymous without a session.
MaxCategories == 2      \* category_create is followed while keys remain
MaxTransactions == 2    \* transaction_create is followed while keys remain

Users == {"ana", "luis"}
Anonymous == "AnonymousUser"

\* the posted fields; a blank field is the empty string
CategoryPosts == [name : {"", "Comida", "Sueldo"}]
TransactionPosts == [category : 1..MaxCategories, amount : {"", "1.00", "2.50"}]

\* mutant of OwnedBy: the rows are not filtered by owner
OwnedByAnyone(rows, u) == rows

\* Model.objects.filter(user=u)
OwnedBy(rows, u) == {r \in rows : r.user = u}

\* get_object_or_404(Model, pk=pk, user=u): the rows found (none: 404)
Lookup(rows, pk, u) == {r \in OwnedBy(rows, u) : r.pk = pk}

\* CategoryForm.is_valid: the name is required
CategoryFormValid(post) == post.name # ""

\* TransactionForm.is_valid: the amount is required, and the category is one
\* of the queryset of __init__, the categories of the user
TransactionFormValid(post, u) ==
    /\ post.amount # ""
    /\ \E c \in OwnedBy(db.categories, u) : c.pk = post.category

Respond(view, u, pk, status) ==
    peticion' = [view |-> view, user |-> u, pk |-> pk, status |-> status]

\* @login_required: an anonymous request is redirected to the login page
LoginRedirect(view, u, pk) ==
    u = Anonymous /\ Respond(view, u, pk, "login") /\ db' = db

transaction_create(u, method, post) ==
    /\ \/ LoginRedirect("transaction_create", u, 0)
       \/ /\ u # Anonymous
          /\ IF method = "POST" /\ TransactionFormValid(post, u)
             THEN /\ db.next_transaction <= MaxTransactions
                  /\ db' = [db EXCEPT
                              !.transactions = @ \cup
                                  {[pk |-> db.next_transaction, user |-> u,
                                    category |-> post.category, amount |-> post.amount]},
                              !.next_transaction = @ + 1]
                  /\ Respond("transaction_create", u, 0, "redirect")
             ELSE db' = db /\ Respond("transaction_create", u, 0, "form")
    /\ UNCHANGED <<tank, calcVars, simVars, estVars, objVars, guiVars>>

transaction_edit(u, pk, method, post) ==
    /\ \/ LoginRedirect("transaction_edit", u, pk)
       \/ /\ u # Anonymous
          /\ LET found == Lookup(db.transactions, pk, u)
             IN IF found = {}
                THEN db' = db /\ Respond("transaction_edit", u, pk, "404")
                ELSE IF method = "POST" /\ TransactionFormValid(post, u)
                     THEN /\ db' = [db EXCEPT
                                     !.transactions = (@ \ found) \cup
                                        {[r EXCEPT !.category = post.category,
                                                   !.amount = post.amount] : r \in found}]
                          /\ Respond("transaction_edit", u, pk, "redirect")
                     ELSE db' = db /\ Respond("transaction_edit", u, pk, "form")
    /\ UNCHANGED <<tank, calcVars, simVars, estVars, objVars, guiVars>>

transaction_delete(u, pk, method) ==
    /\ \/ LoginRedirect("transaction_delete", u, pk)
       \/ /\ u # Anonymous
          /\ LET found == Lookup(db.transactions, pk, u)
             IN IF found = {}
                THEN db' = db /\ Respond("transaction_delete", u, pk, "404")
                ELSE IF method = "POST"
                     THEN /\ db' = [db EXCEPT !.transactions = @ \ found]
                          /\ Respond("transaction_delete", u, pk, "redirect")
                     ELSE db' = db /\ Respond("transaction_delete", u, pk, "form")
    /\ UNCHANGED <<tank, calcVars, simVars, estVars, objVars, guiVars>>

category_create(u, method, post) ==
    /\ \/ LoginRedirect("category_create", u, 0)
       \/ /\ u # Anonymous
          /\ IF method = "POST" /\ CategoryFormValid(post)
             THEN /\ db.next_category <= MaxCategories
                  /\ db' = [db EXCEPT
                              !.categories = @ \cup
                                  {[pk |-> db.next_category, user |-> u, name |-> post.name]},
                              !.next_category = @ + 1]
                  /\ Respond("category_create", u, 0, "redirect")
             ELSE db' = db /\ Respond("category_create", u, 0, "form")
    /\ UNCHANGED <<tank, calcVars, simVars, estVars, objVars, guiVars>>

category_edit(u, pk, method, post) ==
    /\ \/ LoginRedirect("category_edit", u, pk)
       \/ /\ u # Anonymous
          /\ LET found == Lookup(db.categories, pk, u)
             IN IF found = {}
                THEN db' = db /\ Respond("category_edit", u, pk, "404")
                ELSE IF method = "POST" /\ CategoryFormValid(post)
                     THEN /\ db' = [db EXCEPT
                                     !.categories = (@ \ found) \cup
                                        {[r EXCEPT !.name = post.name, !.user = u] :
                                            r \in found}]
                          /\ Respond("category_edit", u, pk, "redirect")
                     ELSE db' = db /\ Respond("category_edit", u, pk, "form")
    /\ UNCHANGED <<tank, calcVars, simVars, estVars, objVars, guiVars>>

\* CategoryDelete has no login_required: filter(user=AnonymousUser) raises,
\* and the response is a server error.  A deleted category takes the
\* transactions of the category with it (on_delete=CASCADE).
CategoryDelete(u, pk, method) ==
    /\ IF u = Anonymous
       THEN db' = db /\ Respond("category_delete", u, pk, "500")
       ELSE LET found == Lookup(db.categories, pk, u)
            IN IF found = {}
               THEN db' = db /\ Respond("category_delete", u, pk, "404")
               ELSE IF method = "POST"
                    THEN /\ db' = [db EXCEPT
                                    !.categories = @ \ found,
                                    !.transactions = {r \in @ : r.category # pk}]
                         /\ Respond("category_delete", u, pk, "redirect")
                    ELSE db' = db /\ Respond("category_delete", u, pk, "form")
    /\ UNCHANGED <<tank, calcVars, simVars, estVars, objVars, guiVars>>

WebNext ==
    \E u \in Users \cup {Anonymous}, method \in {"GET", "POST"} :
        \/ \E post \in TransactionPosts : transaction_create(u, method, post)
        \/ \E pk \in 1..MaxTransactions, post \in TransactionPosts :
              transaction_edit(u, pk, method, post)
        \/ \E pk \in 1..MaxTransactions : transaction_delete(u, pk, method)
        \/ \E post \in CategoryPosts : category_create(u, method, post)
        \/ \E pk \in 1..MaxCategories, post \in CategoryPosts :
              category_edit(u, pk, method, post)
        \/ \E pk \in 1..MaxCategories : CategoryDelete(u, pk, method)

SpecWeb == ModelsInit /\ [][WebNext]_vars

\* ------------------------------------------------------------- claims
\* the Euler loop of calcular(t) ran: t > 0, unequal flow rates
LoopRan == pc = "done" /\ t > 0 /\ ~tank.volumen_constante

\* C1: in the volume-variable branch, when the tracked volume has reached 0
\* by the time the loop has covered t, calcular(t) returns exactly 0; so a
\* draining tank returns 0 for every t at or after V0 / (r_out - r_in), also
\* when the volume first becomes 0 on the last integration step.
C1_EmptiedTankReturnsZero ==
    (/\ LoopRan
     /\ \/ current_V <= 0
        \/ /\ tank.r_out > tank.r_in
           /\ t * (tank.r_out - tank.r_in) >= tank.V0)
    => result = 0

\* C2 (as stated): one call of calcular(t) runs at most about 1000
\* iterations of the loop, however large t is.
C2_AtMostThousandSteps ==
    pc \in {"loop", "done"} => steps <= StepDivisor + 1

\* the number of iterations the step dt = min(0.1, t/1000) gives for t
StepsFor(tt) == Max(StepDivisor, DtCapInv * tt)

\* C2 (amended): one call of calcular(t) runs at most max(1000, 10 * t)
\* iterations, and exactly that many when the tank does not empty: 1000 for
\* t <= 100 and 10 * t, growing with t, beyond.
C2_StepsGrowWithT ==
    /\ pc \in {"loop", "done"} /\ t > 0 => steps <= StepsFor(t)
    /\ LoopRan /\ current_V > 0 => steps = StepsFor(t)

\* a call with t > 100 that ran 10 * t > 1000 iterations
C2_Witness ==
    LoopRan /\ t = LargeT /\ steps = DtCapInv * LargeT /\ steps > StepDivisor

\* C3: in the volume-variable branch the tracked amount and the tracked
\* volume are >= 0 after every iteration, and the value returned is >= 0.
C3_AmountAndVolumeNonNegative ==
    /\ pc \in {"loop", "done"} => current_A >= 0 /\ current_V >= 0
    /\ pc = "done" => result >= 0

\* an iteration has run and the next one removes more than the tank holds
\* (r_out * dt / V > 1), or the volume was clamped to 0 from below
C3_Witness ==
    /\ pc = "loop"
    /\ steps > 0
    /\ \/ current_V > 0 /\ current_A > 0 /\ tank.r_out * dt > current_V
       \/ /\ current_V = 0
          /\ (tank.V0 * TimeScale) % ((tank.r_out - tank.r_in) * dt) # 0

\* C4: a simulation with t_max <= 0 fails and produces no trajectory.
C4_NonPositiveHorizonFails ==
    sim_pc = "returned" => t_max > 0

\* C5: for t_max > 0 and dt > 0 the sample times are strictly increasing,
\* start at 0 and lie in [0, t_max].
C5_SampleTimesWithinHorizon ==
    (sim_pc \in {"sampling", "returned"} /\ t_max > 0 /\ sim_dt > 0)
    => /\ Len(t_values) >= 1
       /\ t_values[1] = 0
       /\ \A i \in 1..Len(t_values) - 1 : t_values[i] < t_values[i + 1]
       /\ \A i \in 1..Len(t_values) : 0 <= t_values[i] /\ t_values[i] <= t_max

\* C6: a run that returns normally has at least one sample, and as many
\* values as times.
C6_TrajectoryNonEmpty ==
    sim_pc = "returned"
    => Len(t_values) >= 1 /\ Len(t_values) = Len(y_values)

\* --------------------------------------------- claims on the statistics
\* get_estadisticas has returned the statistics of a non-empty trajectory
StatsDone ==
    est_pc = "done" /\ Len(est_y_values) >= 1 /\ Len(est_t_values) >= 1

NumSamples == Len(est_y_values)
AllFinite == \A i \in 1..NumSamples : est_y_values[i].k = "fin"
Val(i) == est_y_values[i].num
Change(j) == Abs(Val(j) - Val(j - 1))

\* the step from sample j-1 to sample j is steady (j counted from 1):
\* |dy| / max(|y|, 1e-10) < 0.01 or |dy| < 1e-6
SteadyStepTo(j) ==
    /\ est_y_values[j - 1].k = "fin"
    /\ est_y_values[j].k = "fin"
    /\ \/ RelTolInv * Change(j) < Max(Abs(Val(j)), ScaleFloor)
       \/ Change(j) < AbsTol

\* y is not steady before sample K and is constant from sample K on
ConstantFrom(K) ==
    /\ \A j \in 2..K : ~SteadyStepTo(j)
    /\ \A j \in K..NumSamples : Val(j) = Val(K)

\* C7 (as stated): for a trajectory of at least 3 samples that is not steady
\* before index k and constant after it, equilibrium_time = t_values[k].
C7_EquilibriumAtK ==
    (StatsDone /\ NumSamples >= 3 /\ AllFinite)
    => \A K \in 1..NumSamples - 1 :
          ConstantFrom(K) => stats.tiempo_equilibrio = est_t_values[K]

\* C7 (amended): for such a trajectory equilibrium_time is the time of the
\* sample after k, t_values[k+1]: the steady step from k to k+1 is reported
\* at its later sample.
C7_EquilibriumAfterK ==
    (StatsDone /\ NumSamples >= 3 /\ AllFinite)
    => \A K \in 1..NumSamples - 1 :
          ConstantFrom(K) => stats.tiempo_equilibrio = est_t_values[K + 1]

\* a trajectory that changes up to its sample K >= 2 and is constant from
\* there, with distinct times for K and K+1
C7_Witness ==
    /\ StatsDone /\ NumSamples >= 3 /\ AllFinite
    /\ \E K \in 2..NumSamples - 1 :
          /\ ConstantFrom(K)
          /\ est_t_values[K] < est_t_values[K + 1]
          /\ stats.tiempo_equilibrio = est_t_values[K + 1]

StrictlyMonotonic ==
    \/ \A j \in 2..NumSamples : Val(j - 1) < Val(j)
    \/ \A j \in 2..NumSamples : Val(j - 1) > Val(j)

\* C8 (as stated): for every strictly monotonic trajectory (no two
\* consecutive samples equal) equilibrium_time is the last sample time.
C8_MonotonicHasNoEquilibrium ==
    (StatsDone /\ AllFinite /\ StrictlyMonotonic)
    => stats.tiempo_equilibrio = est_t_values[NumSamples]

\* C8 (amended): for every strictly monotonic trajectory whose consecutive
\* samples all differ by at least 1e-6 and by at least 1% of the later
\* sample's magnitude, equilibrium_time is the last sample time.
C8_MonotonicLargeChanges ==
    (/\ StatsDone /\ AllFinite /\ StrictlyMonotonic
     /\ \A j \in 2..NumSamples :
           /\ Change(j) >= AbsTol
           /\ RelTolInv * Change(j) >= Max(Abs(Val(j)), ScaleFloor))
    => stats.tiempo_equilibrio = est_t_values[NumSamples]

\* three or more samples, strictly monotonic with large changes, at
\* strictly increasing times
C8_Witness ==
    /\ StatsDone /\ NumSamples >= 3 /\ AllFinite /\ StrictlyMonotonic
    /\ \A j \in 2..NumSamples :
          /\ ~SteadyStepTo(j)
          /\ est_t_values[j - 1] < est_t_values[j]
    /\ stats.tiempo_equilibrio = est_t_values[NumSamples]

\* the first sample the step to which is steady
FirstSteadySample ==
    CHOOSE j \in 2..NumSamples :
        SteadyStepTo(j) /\ \A i \in 2..j - 1 : ~SteadyStepTo(i)

\* C9: equilibrium_time is the time of the earliest sample the step to
\* which is steady; it is the last sample time when no step is steady or
\* the trajectory has fewer than 3 samples.
C9_EarliestSteadySample ==
    StatsDone
    => stats.tiempo_equilibrio =
          IF NumSamples >= 3 /\ \E j \in 2..NumSamples : SteadyStepTo(j)
          THEN est_t_values[FirstSteadySample]
          ELSE est_t_values[NumSamples]

\* the first steady step is neither the first nor the last one, and its
\* sample has a time of its own
C9_Witness ==
    /\ StatsDone /\ NumSamples >= 4
    /\ \E j \in 2..NumSamples : SteadyStepTo(j)
    /\ FirstSteadySample = 3
    /\ est_t_values[2] < est_t_values[3]
    /\ est_t_values[3] < est_t_values[NumSamples]
    /\ stats.tiempo_equilibrio = est_t_values[3]

\* the consecutive pairs (i, i+1) with dt > 0, and those of finite ratio
ValidPairs == {i \in 1..NumSamples - 1 : est_t_values[i + 1] - est_t_values[i] > 0}
FinitePairs ==
    {i \in ValidPairs : est_y_values[i].k = "fin" /\ est_y_values[i + 1].k = "fin"}
Gap(i) == est_t_values[i + 1] - est_t_values[i]

\* the product of the gaps of the finite pairs among the first i pairs
RECURSIVE ProdGaps(_)
ProdGaps(i) ==
    IF i = 0 THEN 1
    ELSE (IF i \in FinitePairs THEN Gap(i) ELSE 1) * ProdGaps(i - 1)

\* the sum of dy/dt over those pairs, times ProdGaps(NumSamples - 1)
RECURSIVE SumRates(_)
SumRates(i) ==
    IF i = 0 THEN 0
    ELSE (IF i \in FinitePairs
          THEN (Val(i + 1) - Val(i)) * (ProdGaps(NumSamples - 1) \div Gap(i))
          ELSE 0) + SumRates(i - 1)

\* C10: average_rate_of_change is the mean of dy/dt over the consecutive
\* pairs with dt > 0 and a finite ratio; it is 0.0 with fewer than 2 points
\* or with no pair of dt > 0, and a finite real otherwise.
C10_MeanRateOfChange ==
    StatsDone
    => /\ stats.tasa_cambio.k = "fin"
       /\ (NumSamples < 2 \/ ValidPairs = {}) => stats.tasa_cambio = Fin(0)
       /\ FinitePairs # {}
          => stats.tasa_cambio.num * Cardinality(FinitePairs) * ProdGaps(NumSamples - 1)
               = stats.tasa_cambio.den * SumRates(NumSamples - 1)

\* the sum of the first i samples
RECURSIVE SumVals(_)
SumVals(i) == IF i = 0 THEN 0 ELSE Val(i) + SumVals(i - 1)

\* the sum of the magnitudes of the first i samples
RECURSIVE SumAbsVals(_)
SumAbsVals(i) == IF i = 0 THEN 0 ELSE Abs(Val(i)) + SumAbsVals(i - 1)

\* the distance of promedio from the exact mean, times promedio.den and
\* the number of samples
MeanError ==
    Abs(stats.promedio.num * NumSamples - stats.promedio.den * SumVals(NumSamples))

\* the rounding of a mean: one unit, and one part in 100000 of the magnitudes
MeanSlack == 1 + SumAbsVals(NumSamples) \div 100000

StatsKeys == {"promedio", "maximo", "minimo", "tasa_cambio", "tiempo_equilibrio"}

C11_WitnessEmpty ==
    est_pc = "done" /\ Len(est_t_values) = 0 /\ Len(est_y_values) >= 1
    /\ stats = NoStats

\* ------------------------------------------- claims on Mezclas.calcular
\* C17: with equal and with unequal flow rates, calcular(t) returns the
\* initial mass C0 * V0 for every t <= 0.
C17_InitialMassBeforeStart ==
    (pc = "done" /\ t <= 0) => result = tank.C0 * tank.V0 * MassScale

\* calcular(t) has returned for a t <= 0 on a tank of equal flow rates whose
\* amount changes for t > 0, and whose initial amount is not its
\* concentration
C17_Witness ==
    /\ pc = "done" /\ t <= 0
    /\ tank.volumen_constante /\ tank.r_out > 0
    /\ tank.C0 # tank.C_in
    /\ tank.V0 > 1 /\ tank.C0 > 0
    /\ result = tank.C0 * tank.V0 * MassScale

\* the amount A_ss + (A0 - A_ss) * e for the tank, e in units
MixedAmount(e) ==
    LET A0 == tank.C0 * tank.V0 * MassScale
        A_ss == tank.C_in * tank.V0 * MassScale
    IN MulDiv(FloatUnit - e, A_ss, FloatUnit) + MulDiv(e, A0, FloatUnit)

\* the double nearest below exp(-(r_out / V0) * t)
DecayFactor == RoundSig(ExpUnits(-(((tank.r_out * FloatUnit) \div tank.V0) * t)))

\* C18: with equal flow rates, calcular(t) returns C0 * V0 for every t when
\* r_out = 0 and otherwise the closed form A_ss + (A0 - A_ss) *
\* exp(-(r_out / V0) * t), never below 0; the loop is never entered.
C18_ClosedFormBranch ==
    tank.volumen_constante
    => /\ pc # "loop" /\ steps = 0
       /\ (pc = "done" /\ tank.r_out = 0) => result = tank.C0 * tank.V0 * MassScale
       /\ (pc = "done" /\ tank.r_out # 0 /\ t > 0)
          => /\ result >= 0
             /\ Abs(result - MixedAmount(DecayFactor)) <= 2

\* the closed form has returned an amount strictly between the initial and
\* the steady amount
C18_Witness ==
    /\ tank.volumen_constante /\ tank.r_out # 0
    /\ pc = "done" /\ t > 0
    /\ tank.C0 > tank.C_in
    /\ result < tank.C0 * tank.V0 * MassScale
    /\ result > tank.C_in * tank.V0 * MassScale

\* --------------------------------------------- claims on the four classes
IsCrecimiento == Exists(modelo) /\ modelo.clase = "CrecimientoExponencial"
IsEnfriamiento == Exists(modelo) /\ modelo.clase = "EnfriamientoNewton"
IsCircuito == Exists(modelo) /\ modelo.clase = "CircuitoRL"

\* the constructor of the class has just run
Constructing(clase) == call.op = "__init__" /\ call.clase = clase

\* C12: on every constructed model of the four classes and for every pair
\* of sequences (empty t_values, empty y_values, unequal lengths, constant
\* values), get_interpretacion returns a text and never raises.
C12_InterpretNeverRaises ==
    call.op = "get_interpretacion" => raised = ""

\* C13: EnfriamientoNewton(T0, Ta, k) raises exactly when k <= 0 or
\* T0 == Ta, in the constructor, and leaves no object behind; for every
\* other input the object exists, and calcular on it never raises.
C13_EnfriamientoConstruction ==
    /\ Constructing("EnfriamientoNewton")
       => /\ raised \in {"", "ValueError"}
          /\ raised = "ValueError" <=> (call.args[3] <= 0 \/ call.args[1] = call.args[2])
          /\ raised = "ValueError" => Unbuilt
          /\ raised = ""
             => /\ IsEnfriamiento
                /\ <<modelo.T0, modelo.Ta, modelo.k>> = call.args
    /\ IsEnfriamiento
       => /\ modelo.k > 0 /\ modelo.T0 # modelo.Ta
          /\ call.op = "calcular" => raised = ""

\* the constructor has refused equal temperatures with a good k
C13_Witness ==
    /\ Constructing("EnfriamientoNewton")
    /\ call.args[3] > 0 /\ call.args[1] = call.args[2]
    /\ raised = "ValueError" /\ Unbuilt

\* C14: Mezclas(V0, C0, r_in, C_in, r_out) raises exactly when V0 <= 0 or
\* C0 < 0 or r_in < 0 or r_out < 0 or C_in < 0, and succeeds for every other
\* input, r_in = r_out = 0 included.
C14_MezclasConstruction ==
    Constructing("Mezclas")
    => /\ raised \in {"", "ValueError"}
       /\ raised = "ValueError"
          <=> \/ call.args[1] <= 0
              \/ call.args[2] < 0
              \/ call.args[3] < 0
              \/ call.args[5] < 0
              \/ call.args[4] < 0
       /\ raised = "ValueError" => Unbuilt
       /\ raised = ""
          => /\ Exists(tank)
             /\ <<tank.V0, tank.C0, tank.r_in, tank.C_in, tank.r_out>> = call.args

\* a tank without any flow has been constructed
C14_Witness ==
    /\ Constructing("Mezclas")
    /\ call.args[3] = 0 /\ call.args[5] = 0
    /\ raised = "" /\ Exists(tank) /\ tank.r_in = 0 /\ tank.r_out = 0

\* calcular(t) has returned on an EnfriamientoNewton object
EnfriamientoCalled == IsEnfriamiento /\ call.op = "calcular"

\* Ta + (T0 - Ta) * exp(-k * t) in doubles
CoolingLaw ==
    RAdd(Fin(modelo.Ta),
         RMul(RSub(Fin(modelo.T0), Fin(modelo.Ta)),
              FExp(RMul(Fin(-modelo.k), Time(call.t)))))

\* C15 (as stated): calcular(t) returns exactly T0 for every t < 0 and for
\* t = 0, and Ta + (T0 - Ta) * exp(-k * t) for t > 0.
C15_ExactlyT0UpToZero ==
    EnfriamientoCalled
    => /\ call.t <= 0 => value = Fin(modelo.T0)
       /\ call.t > 0 => value = CoolingLaw

\* T0 - Ta is a double: the subtraction is exact
ExactDifference == RSub(Fin(modelo.T0), Fin(modelo.Ta)) = Fin(modelo.T0 - modelo.Ta)

\* C15 (amended): calcular(t) returns exactly T0 for every t < 0, and
\* Ta + (T0 - Ta) * exp(-k * t) for t >= 0; at t = 0 that is T0 when T0 - Ta
\* is computed exactly, and otherwise T0 only up to the rounding of the
\* subtraction and of the addition.
C15_T0BeforeZero ==
    EnfriamientoCalled
    => /\ call.t < 0 => value = Fin(modelo.T0)
       /\ call.t >= 0 => value = CoolingLaw /\ value.k = "fin"
       /\ (call.t = 0 /\ ExactDifference) => value = Fin(modelo.T0)
       /\ call.t = 0
          => Abs(value.num - modelo.T0) * (SigLimit \div 10)
               <= 2 * (Abs(modelo.T0) + Abs(modelo.Ta))

\* calcular(0) has returned a value that is not T0: T0 - Ta was rounded
C15_Witness ==
    /\ EnfriamientoCalled /\ call.t = 0
    /\ ~ExactDifference
    /\ value # Fin(modelo.T0)

TwoCalls ==
    /\ IsCrecimiento /\ call.op = "calcular"
    /\ first_call # <<>>
    /\ first_call[1].t < call.t
Earlier == first_call[1].value
Later == value

\* C19 (as stated): for every P0, of any sign or zero, and t1 < t2:
\* calcular(t2) > calcular(t1) if k > 0, calcular(t2) < calcular(t1) if
\* k < 0, and the two are equal if k = 0.
C19_MonotonicForEveryP0 ==
    TwoCalls
    => /\ modelo.k > 0 => FLess(Earlier, Later)
       /\ modelo.k < 0 => FLess(Later, Earlier)
       /\ modelo.k = 0 => Later = Earlier

\* the exponents k * t1 and k * t2 are at least 1 apart
ExponentsApart == Abs(modelo.k) * (call.t - first_call[1].t) >= FloatUnit

\* C19 (amended): for P0 > 0 and t1 < t2: calcular(t2) >= calcular(t1) if
\* k > 0, calcular(t2) <= calcular(t1) if k < 0, equal if k = 0; strictly so
\* when the exponents are at least 1 apart and the smaller value is not 0
\* and the larger not inf.  For P0 < 0 the order is the opposite one.
C19_MonotonicForPositiveP0 ==
    TwoCalls
    => /\ (modelo.P0 > 0 /\ modelo.k > 0)
          => /\ ~FLess(Later, Earlier)
             /\ (ExponentsApart /\ Earlier.num > 0 /\ Later.k = "fin")
                => FLess(Earlier, Later)
       /\ (modelo.P0 > 0 /\ modelo.k < 0)
          => /\ ~FLess(Earlier, Later)
             /\ (ExponentsApart /\ Later.num > 0 /\ Earlier.k = "fin")
                => FLess(Later, Earlier)
       /\ (modelo.P0 < 0 /\ modelo.k > 0) => ~FLess(Earlier, Later)
       /\ (modelo.P0 < 0 /\ modelo.k < 0) => ~FLess(Later, Earlier)
       /\ (modelo.P0 # 0 /\ modelo.k = 0) => Later = Earlier

\* a growing positive population: the later value is the larger one
C19_Witness ==
    /\ TwoCalls
    /\ modelo.P0 > 0 /\ modelo.k > 0
    /\ Later.k = "fin"
    /\ FLess(Earlier, Later)

\* a call on the object has returned or raised
Returned == call.op # "none" /\ pc \in {"idle", "done"}

\* calcular(t) returns the value the first calcular(t) with that t returned
SameValueSameT ==
    /\ (call.op = "calcular" /\ first_call # <<>> /\ first_call[1].t = call.t)
       => /\ (Exists(modelo) => value = first_call[1].value)
          /\ (Exists(tank) /\ pc = "done") => result = first_call[1].value
    /\ first_call # <<>> => ~Unbuilt

\* no step changes a parameter of the object once it exists
ParametersUnchanged ==
    [][~Unbuilt => (tank' = tank /\ modelo' = modelo)]_vars

\* C20: calcular, simular, get_estadisticas and get_interpretacion leave
\* every parameter of the object as it was, and calcular(t) returns the
\* value the first calcular(t) with that t returned, whatever was called in
\* between.
C20_Frame == []SameValueSameT /\ ParametersUnchanged

\* the loop has run a second time for the t of the first call, with another
\* call in between, and returns the same amount
C20_Witness ==
    /\ Exists(tank) /\ ~tank.volumen_constante
    /\ call.op = "calcular" /\ pc = "done" /\ steps > 0
    /\ first_call # <<>>
    /\ first_call[1].t = t /\ first_call[1].between
    /\ result = first_call[1].value /\ result > 0

\* ----------------------------------------------- claims on the Euler loop
\* the loop of calcular(t) is running or has ended
Integrating == pc \in {"loop", "done"} /\ Branch(tank, t) = "euler"

\* the linear law max(0, V0 + (r_in - r_out) * s), s and the volume in ticks
LinearVolume(s) == Max(0, tank.V0 * TimeScale + (tank.r_in - tank.r_out) * s)

\* C24: in the volume-variable branch the tracked volume after integrating
\* up to the elapsed time s is max(0, V0 + (r_in - r_out) * s) at every
\* step, and when the loop ends with a tank that is not empty the elapsed
\* time is exactly t; it is below t only when the loop returned early on an
\* empty tank.
C24_VolumeFollowsLinearLaw ==
    Integrating
    => /\ current_V = LinearVolume(current_t)
       /\ current_t <= t * TimeScale
       /\ (pc = "done" /\ current_V > 0) => current_t = t * TimeScale
       /\ (pc = "done" /\ current_t < t * TimeScale) => current_V = 0 /\ result = 0

\* the loop has ended at t on a tank whose volume has changed and is not 0
C24_Witness ==
    /\ Integrating /\ pc = "done"
    /\ steps > 0
    /\ current_t = t * TimeScale
    /\ current_V > 0
    /\ current_V # tank.V0 * TimeScale
    /\ current_V = LinearVolume(current_t)

\* every iteration advances the elapsed time by min(dt, t - elapsed) > 0
StepAdvances ==
    [][LoopStep
       => /\ current_t' > current_t
          /\ current_t' - current_t = Min(dt, t * TimeScale - current_t)]_vars

\* the loop ends when the elapsed time has reached t or the tank is empty
EndsAtTOrEmpty ==
    [][(pc = "loop" /\ pc' = "done")
       => (current_t = t * TimeScale \/ current_V <= 0)]_vars

TimesIncrease == \A j \in 2..NumSamples : est_t_values[j - 1] < est_t_values[j]

\* C29: for non-empty sequences of equal length, tiempo_equilibrio is an
\* element of t_values; with two or more samples it is the time of a sample
\* other than the first (index 0), so with increasing times it is never
\* t_values[0]; and a steady pair (i, i+1) is reported at index i+1.
C29_EquilibriumIndex ==
    (StatsDone /\ Len(est_t_values) = NumSamples)
    => /\ \E j \in 1..NumSamples : stats.tiempo_equilibrio = est_t_values[j]
       /\ NumSamples >= 2
          => \E j \in 2..NumSamples : stats.tiempo_equilibrio = est_t_values[j]
       /\ (NumSamples >= 2 /\ TimesIncrease)
          => stats.tiempo_equilibrio # est_t_values[1]
       /\ NumSamples >= 3
          => \A i \in 1..NumSamples - 1 :
                (IsSteady(est_y_values)[i] /\ \A h \in 1..i - 1 : ~IsSteady(est_y_values)[h])
                => stats.tiempo_equilibrio = est_t_values[i + 1]

\* the very first pair of samples is steady, at increasing times: the second
\* sample's time is reported
C29_Witness ==
    /\ StatsDone /\ NumSamples >= 3 /\ TimesIncrease
    /\ IsSteady(est_y_values)[1]
    /\ stats.tiempo_equilibrio = est_t_values[2]
    /\ stats.tiempo_equilibrio # est_t_values[1]
    /\ stats.tiempo_equilibrio # est_t_values[NumSamples]

\* ---------------------------------------------- claims on trace amounts
\* C25: every value calcular(t) returns for t > 0 with unequal flow rates is
\* exactly 0 or at least 1e-10: an amount below 1e-10 is replaced by 0 after
\* every iteration, before it can be returned.
C25_SmallAmountsSnapped ==
    /\ (pc = "loop" /\ steps > 0) => (current_A = 0 \/ current_A >= SnapFemto)
    /\ (pc = "done" /\ t > 0) => (result = 0 \/ result >= SnapFemto)

\* calcular(t) has returned 0 from a tank that started with solute and still
\* holds a litre or more, every iteration having removed less than the tank
\* held: the amount fell below 1e-10 and was replaced by 0
C25_Witness ==
    /\ pc = "done" /\ t > 0
    /\ tank.C0 > 0 /\ tank.C_in = 0
    /\ current_t = t * TimeScale
    /\ current_V >= TimeScale
    /\ tank.r_out * dt < current_V
    /\ tank.r_in < tank.r_out
    /\ result = 0

\* a handler of the application ran in this step
HandlerRan == evento' # evento \/ simulaciones' # simulaciones

ByButton == evento.op \in {"simular", "comparar"}

\* the parameters of a form that no constructor accepts
InvalidForm(params) ==
    /\ params # <<>>
    /\ \/ params.modelo = "enfriamiento" /\ (params.k <= 0 \/ params.T0 = params.Ta)
       \/ /\ params.modelo = "mezclas"
          /\ \/ params.V0 <= 0 \/ params.C0 < 0 \/ params.C_in < 0
             \/ params.r_in < 0 \/ params.r_out < 0

\* C21: when simular or comparar runs on parameters that the constructor of
\* the selected model refuses, no run (samples, statistics, interpretation)
\* is produced, an error is shown, and the stored list is what it was.
C21_FailedConstructionKeepsList ==
    [][(HandlerRan /\ InvalidForm(evento'.params))
       => /\ simulaciones' = simulaciones
          /\ evento'.produced = <<>>
          /\ evento'.error # ""
          /\ ~evento'.refreshed]_vars

C21_Witness ==
    /\ evento.op = "comparar"
    /\ InvalidForm(evento.params)
    /\ evento.params.modelo = "enfriamiento"
    /\ evento.error # ""
    /\ Len(simulaciones) = 1

\* C22: in a run, calcular is applied to the sample times in increasing
\* order of t, once per sample time.  Violated by the run of the
\* application for t_max <= 0: the times decrease (t_max < 0) or are all 0.
C22_SamplesInIncreasingOrder ==
    (ByButton /\ evento.produced # <<>>)
    => \A i \in 1..(GridPoints - 1) :
          evento.produced.t_values[i] < evento.produced.t_values[i + 1]

\* C23: for t_max > 0 the run of the application has exactly 1000 sample
\* times, equally spaced, the first 0 and the last t_max, and as many values,
\* the i-th being calcular of the i-th time.
C23_UniformGrid ==
    (ByButton /\ evento.produced # <<>> /\ evento.params.t_max > 0)
    => LET tv == evento.produced.t_values
           yv == evento.produced.y_values
           obj == crear_modelo(evento.params).obj
       IN /\ Len(tv) = 1000
          /\ Len(yv) = 1000
          /\ tv[1] = 0
          /\ tv[1000] = evento.params.t_max
          /\ \A i \in 1..999 :
                tv[i] < tv[i + 1] /\ tv[i + 1] - tv[i] = tv[2] - tv[1]
          /\ \A i \in 1..1000 : yv[i] = Evaluar(obj, tv[i])

C23_Witness ==
    /\ evento.op = "simular"
    /\ evento.produced # <<>>
    /\ evento.params.t_max > 0
    /\ evento.params.modelo = "enfriamiento"
    /\ evento.produced.y_values[1] # evento.produced.y_values[1000]

\* C27: in every step of the application, a plain simular that succeeds
\* leaves exactly the new run in the list; a comparar that succeeds appends
\* the new run and keeps the others; limpiar leaves the list empty; and after
\* a comparar the display is updated only if the list holds 2 runs or more.
C27_ListDiscipline ==
    [][HandlerRan
       => /\ (evento'.op = "simular" /\ evento'.error = "")
             => simulaciones' = <<evento'.produced>>
          /\ (evento'.op = "comparar" /\ evento'.error = "")
             => /\ Len(simulaciones') = Len(simulaciones) + 1
                /\ SubSeq(simulaciones', 1, Len(simulaciones)) = simulaciones
                /\ simulaciones'[Len(simulaciones')] = evento'.produced
          /\ evento'.op = "limpiar" => simulaciones' = <<>>
          /\ (evento'.op = "comparar" /\ evento'.refreshed)
             => Len(simulaciones') >= 2]_vars

C27_Witness ==
    /\ evento.op = "comparar"
    /\ evento.error = ""
    /\ evento.refreshed
    /\ Len(simulaciones) = 2
    /\ simulaciones[1].name # simulaciones[2].name

\* a view answered a request in this step
WebStep == peticion' # peticion \/ db' # db

ByPk == {"transaction_edit", "transaction_delete", "category_edit", "category_delete"}

\* the row that the request of peticion names by its primary key, if stored
Named(req, rows) ==
    IF req.view \in {"transaction_edit", "transaction_delete"}
    THEN {r \in rows.transactions : r.pk = req.pk}
    ELSE {r \in rows.categories : r.pk = req.pk}

\* C30: in every step of the expense application, a stored category or
\* transaction that is changed or removed belongs to the authenticated user
\* of the request, a request that names a row of another user changes no
\* row, and a row that is new after the request (created or edited) is
\* owned by the user of the request.
C30_OwnerOnly ==
    [][WebStep
       => /\ \A r \in db.categories \ db'.categories : r.user = peticion'.user
          /\ \A r \in db.transactions \ db'.transactions : r.user = peticion'.user
          /\ \A r \in db'.categories \ db.categories : r.user = peticion'.user
          /\ \A r \in db'.transactions \ db.transactions : r.user = peticion'.user
          /\ (/\ peticion'.view \in ByPk
              /\ \E r \in Named(peticion', db) : r.user # peticion'.user)
             => db' = db /\ peticion'.status \notin {"redirect", "form"}]_vars

\* a request for a row of another user was answered while both users
\* had rows, a transaction among them
C30_Witness ==
    /\ peticion.view \in ByPk
    /\ peticion.user \in Users
    /\ \E r \in Named(peticion, db) : r.user \in Users \ {peticion.user}
    /\ \E r \in db.transactions : r.user = peticion.user
    /\ \E r \in db.transactions : r.user # peticion.user

\* a <= b on doubles
FLeq(a, b) == FLess(a, b) \/ a = b

\* max and min are samples
ExtremesOccur ==
    /\ \E i \in 1..NumSamples : stats.maximo = est_y_values[i]
    /\ \E i \in 1..NumSamples : stats.minimo = est_y_values[i]

\* C28 (as stated): for every non-empty trajectory min <= mean <= max, and
\* max and min are values that occur in y_values.
C28_MeanBetweenExtremes ==
    (StatsDone /\ NumSamples >= 1)
    => /\ FLeq(stats.minimo, stats.promedio)
       /\ FLeq(stats.promedio, stats.maximo)
       /\ ExtremesOccur

\* C28 (amended): max and min occur in y_values, with min <= max, and the
\* mean lies between them up to the rounding of np.mean: by no more than a
\* part in 100000 of the magnitudes of the samples below min or above max,
\* and not at all when the sum of the samples is computed without rounding
\* and the trajectory has one sample or two.
C28_MeanBetweenExtremesRounded ==
    (StatsDone /\ NumSamples >= 1)
    => /\ ExtremesOccur
       /\ FLeq(stats.minimo, stats.maximo)
       /\ FLeq(FSub(stats.minimo, Fin(MeanSlack)), stats.promedio)
       /\ FLeq(stats.promedio, FAdd(stats.maximo, Fin(MeanSlack)))
       /\ (NumSamples <= 2 /\ SumAbsVals(NumSamples) < 1000000)
          => FLeq(stats.minimo, stats.promedio) /\ FLeq(stats.promedio, stats.maximo)

\* three equal samples whose sum has a digit more than the double keeps:
\* the mean is below the smallest sample
C28_Witness ==
    /\ StatsDone /\ NumSamples = 3 /\ AllFinite
    /\ stats.minimo = stats.maximo
    /\ FLess(stats.promedio, stats.minimo)

====
